---- MODULE Spec2Model ----
(***************************************************************************)
(* Model of the rentalls_backend authentication gateway: the request       *)
(* handlers of controllers/auth.controller.ts, the identity provider       *)
(* adapter of services/firebase.service.ts, the error classes of           *)
(* utils/errors.ts, the logger wrappers of utils/loggers and the error     *)
(* handling middleware.  Each in-flight request is a process whose program *)
(* counter stands at the `await` it is suspended on; the identity provider *)
(* (Firebase Auth) is the shared state.                                    *)
(***************************************************************************)
EXTENDS Naturals, Sequences, FiniteSets, TLC

VARIABLES
  accounts,   \* the provider's account table: uid -> account or NoAccount
  updates,    \* uid -> number of auth.updateUser writes the provider applied
  env,        \* process.env as read by the program
  pc,         \* request slot -> the await the handler is suspended on
  route,      \* request slot -> route of the request being handled
  body,       \* request slot -> req.body
  local,      \* request slot -> local variables that live across awaits
  results,    \* request slot -> outcomes of the adapter operations, in order
  calls,      \* request slot -> provider calls issued, in order
  log,        \* request slot -> log records emitted while handling it
  resp,       \* request slot -> the HTTP response sent, or NoResp
  faulted,    \* request slot -> the code of the provider's own failure, or NoFault
  before,     \* request slot -> the account table when the request arrived
  emitter,    \* request slot -> for each record of log, who emitted it
  sink        \* the log sink: "ok", or "broken" when every emission throws

vars ==
  <<accounts, updates, env, pc, route, body, local, results, calls, log, resp, faulted,
    before, emitter, sink>>

-----------------------------------------------------------------------------
(* Bounds and input alphabets *)

\* request slots: a request occupies a slot from its arrival to its response
Reqs == {1}

\* a field that is absent from a JSON body (undefined or '': both falsy)
Absent == <<>>

\* strings are sequences of characters so that the validators can look at them
GoodEmail == <<"a", "@", "b", ".", "c">>
NoDotEmail == <<"a", "@", "b">>
OtherEmail == <<"x", "@", "y", ".", "z">>
ValidEmails == {GoodEmail, OtherEmail}
EmailInputs == {Absent, NoDotEmail} \cup ValidEmails

\* passwords are told apart by their length: the shortest non-empty one,
\* and those from just below the minimum up to the longest one tried
MaxPasswordLength == 7
Password(n) == [i \in 1..n |-> "x"]
PasswordLengths == {1} \cup 5..MaxPasswordLength
PasswordInputs == {Absent} \cup {Password(n) : n \in PasswordLengths}
RawPasswords == PasswordInputs \ {Absent}

NameInputs == {Absent, <<"A">>}

\* uids: the provider allocates one uid per account; accounts are never
\* deleted and emails are unique, so the uid of an account is named after
\* its email.  "u0" is an account without an email address (phone sign-in),
\* "nonexistent" never names an account.
PhoneUid == "u0"
UidOf(email) == IF email = GoodEmail THEN "u1" ELSE "u2"
AccountUids == {PhoneUid} \cup {UidOf(e) : e \in ValidEmails}
UidInputs == {"", "nonexistent"} \cup AccountUids

NoAccount == [exists |-> FALSE]
Account(email, password, displayName, verified) ==
  [exists |-> TRUE, email |-> email, password |-> password,
   displayName |-> displayName, emailVerified |-> verified]

-----------------------------------------------------------------------------
(* utils/errors.ts: the error taxonomy *)

Undefined == "undefined"

FirebaseError(message, statusCode, code) ==
  [cls |-> "FirebaseError", name |-> "FirebaseError", message |-> message,
   statusCode |-> statusCode, code |-> code, stack |-> "stack"]

UserExistsError(email) ==
  [FirebaseError(<<"User with email ", email, " already exists">>, 409,
                 "auth/email-already-exists")
     EXCEPT !.cls = "UserExistsError", !.name = "UserExistsError"]

InvalidCredentialsError(message) ==
  [FirebaseError(message, 401, "auth/invalid-credential")
     EXCEPT !.cls = "InvalidCredentialsError", !.name = "InvalidCredentialsError"]

EmailNotVerifiedError(message) ==
  [FirebaseError(message, 403, "auth/email-not-verified")
     EXCEPT !.cls = "EmailNotVerifiedError", !.name = "EmailNotVerifiedError"]

UserNotFoundError(identifier) ==
  [FirebaseError(<<"User not found: ", identifier>>, 404, "auth/user-not-found")
     EXCEPT !.cls = "UserNotFoundError", !.name = "UserNotFoundError"]

InvalidTokenError(message) ==
  [FirebaseError(message, 400, "auth/invalid-action-code")
     EXCEPT !.cls = "InvalidTokenError", !.name = "InvalidTokenError"]

TaxonomyClasses ==
  {"FirebaseError", "UserExistsError", "InvalidCredentialsError",
   "EmailNotVerifiedError", "UserNotFoundError", "InvalidTokenError"}

\* `error instanceof C` for the classes of utils/errors.ts: every class
\* extends FirebaseError directly
InstanceOf(error, C) ==
  \/ error.cls = C
  \/ C = "FirebaseError" /\ error.cls \in TaxonomyClasses

\* errors that are not of the taxonomy: what the provider SDK, fetch, the
\* configuration reader and the JavaScript runtime throw
RawError(cls, message) ==
  [cls |-> cls, name |-> cls, message |-> message, stack |-> "stack"]

ProviderError(code, message) ==
  [cls |-> "FirebaseAuthError", name |-> "FirebaseAuthError", message |-> message,
   code |-> code, stack |-> "stack"]

\* error.code of any error object (undefined when the object has no code)
CodeOf(error) == IF "code" \in DOMAIN error THEN error.code ELSE Undefined

\* `error.message || fallback`
MessageOr(error, fallback) == IF error.message = <<>> THEN <<fallback>> ELSE error.message

-----------------------------------------------------------------------------
(* utils/loggers: the logger wrappers.  A log record is the object handed  *)
(* to logger[level] together with that level; the wrappers' second         *)
(* argument (the human readable line) carries no data and is left out.     *)

\* JavaScript values whose type the wrappers test (typeof, instanceof Error)
JsStr(s) == [t |-> "string", v |-> s]
JsErr(e) == [t |-> "Error", v |-> e]
JsObj(o) == [t |-> "object", v |-> o]

\* { ...base, ...context }: keys of the context win over keys of the base
Spread(base, context) == context @@ base

\* { message: error.message, stack: error.stack, name: error.name }
ErrorInfo(e) == [message |-> e.message, stack |-> e.stack, name |-> e.name]

\* ...(context.error && { error: ... }) of logRegistration and logLoginAttempt
SpreadContextError(context) ==
  IF "error" \in DOMAIN context
    THEN [error |-> IF context.error.t = "Error"
                      THEN ErrorInfo(context.error.v)
                      ELSE [message |-> context.error.v]]
    ELSE <<>>

\* the log sink, logger[level](logData, msg) of utils/logger.ts: the record
\* is emitted at once; a context key literally named `password` is redacted
LoggerSink(level, logData) ==
  [level |-> level,
   data |-> IF "password" \in DOMAIN logData
              THEN [logData EXCEPT !.password = "[Redacted]"]
              ELSE logData]

logAuthEvent(event, level, context) ==
  LoggerSink(level, Spread([type |-> "auth", event |-> event], context))

logRegistration(event, context) ==
  LoggerSink(IF event = "failure" THEN "error" ELSE "info",
             Spread(Spread([type |-> "auth", event |-> "registration_" \o event], context),
                    SpreadContextError(context)))

\* a logLoginAttempt that logs a failed login at info
logLoginAttempt_FailureAtInfo(success, context) ==
  LoggerSink("info",
             Spread(Spread([type |-> "auth",
                            event |-> IF success THEN "login_success" ELSE "login_failure"],
                           context),
                    SpreadContextError(context)))

logLoginAttempt(success, context) ==
  LoggerSink(IF success THEN "info" ELSE "warn",
             Spread(Spread([type |-> "auth",
                            event |-> IF success THEN "login_success" ELSE "login_failure"],
                           context),
                    SpreadContextError(context)))

logValidationError(field, value, reason, context) ==
  LoggerSink("warn",
             Spread([type |-> "validation", event |-> "validation_error",
                     field |-> field, value |-> value, reason |-> reason],
                    context))

\* what the handlers read from the request besides its body
ReqIp == "ip"
ReqUserAgent == "user-agent"

logRequestError(method, url, reqBody, error, statusCode) ==
  LoggerSink("error",
             [type |-> "api", event |-> "request_error", method |-> method, url |-> url,
              statusCode |-> IF statusCode = 0 THEN 500 ELSE statusCode,
              error |-> ErrorInfo(error),
              request |-> [ip |-> ReqIp, userAgent |-> ReqUserAgent,
                           body |-> reqBody]])

\* typeof error === 'string' ? { message: error } : { message, stack, name }
ErrorOrString(error) ==
  IF error.t = "string" THEN [message |-> error.v] ELSE ErrorInfo(error.v)

LogLevels == {"error", "warn", "info", "debug"}

logPermissionDenied(context) ==
  LoggerSink("warn", Spread([type |-> "auth", event |-> "permission_denied"], context))

logSecurityEvent(event, level, context) ==
  LoggerSink(level, Spread([type |-> "security", event |-> event], context))

logFailedAuthAttempt(context) ==
  LoggerSink("warn", Spread([type |-> "security", event |-> "failed_auth_attempt"], context))

logSchemaError(error, schema, context) ==
  LoggerSink("error",
             Spread(Spread([type |-> "validation", event |-> "schema_error",
                            schema |-> schema], context),
                    [error |-> ErrorOrString(error)]))

logApiCall(service, method, url, context) ==
  LoggerSink("info",
             Spread([type |-> "api", event |-> "api_call", service |-> service,
                     method |-> method, url |-> url], context))

logApiError(service, error, context) ==
  LoggerSink("error",
             Spread(Spread([type |-> "api", event |-> "api_error", service |-> service],
                           context),
                    [error |-> ErrorOrString(error)]))

logBusinessEvent(event, context) ==
  LoggerSink("info", Spread([type |-> "business", event |-> event], context))

logBusinessError(event, error, context) ==
  LoggerSink("error",
             Spread(Spread([type |-> "business", event |-> event \o "_error"], context),
                    [error |-> ErrorOrString(error)]))

logApplicationEvent(event, level, context) ==
  LoggerSink(level, Spread([type |-> "application", event |-> event], context))

\* a logSystemEvent that logs every event at info
logSystemEvent_AlwaysInfo(event, context) ==
  LoggerSink("info", Spread([type |-> "application", event |-> "system_" \o event], context))

logSystemEvent(event, context) ==
  LoggerSink(IF event = "shutdown" THEN "warn" ELSE "info",
             Spread([type |-> "application", event |-> "system_" \o event], context))

logDatabaseError(error, context) ==
  LoggerSink("error",
             Spread(Spread([type |-> "database", event |-> "database_error"], context),
                    [error |-> ErrorInfo(error)]))

logDatabaseConnection(event, context) ==
  LoggerSink(IF event = "error" THEN "error" ELSE "info",
             Spread(Spread([type |-> "database", event |-> "database_connection_" \o event],
                           context),
                    IF "error" \in DOMAIN context
                      THEN [error |-> ErrorInfo(context.error)]
                      ELSE <<>>))

logSlowQuery(query, duration, threshold, context) ==
  LoggerSink("warn",
             Spread([type |-> "database", event |-> "slow_query", query |-> query,
                     duration |-> duration, threshold |-> threshold], context))

logPerformance(operation, duration, context) ==
  LoggerSink("info",
             Spread([type |-> "performance", event |-> "performance_metric",
                     operation |-> operation, duration |-> duration], context))

logTimeout(operation, timeout, context) ==
  LoggerSink("warn",
             Spread([type |-> "performance", event |-> "operation_timeout",
                     operation |-> operation, timeout |-> timeout], context))

-----------------------------------------------------------------------------
(* controllers/auth.controller.ts: the validators *)

MinPasswordLength == 6

\* /^[^\s@]+@[^\s@]+\.[^\s@]+$/ : some '@' and some later '.' split the
\* string into three non-empty runs, and no other character is a blank or '@'
emailRegexTest(s) ==
  \E i \in 1..Len(s) : \E j \in 1..Len(s) :
    /\ s[i] = "@" /\ s[j] = "."
    /\ 1 < i /\ i + 1 < j /\ j < Len(s)
    /\ \A k \in 1..Len(s) : k # i => s[k] \notin {" ", "@"}

\* a validatePassword without the minimum length
validatePassword_NoMinimum(password) ==
  IF password = Absent
    THEN [valid |-> FALSE, message |-> <<"Password must be at least 6 characters long">>]
    ELSE [valid |-> TRUE]

validatePassword(password) ==
  IF password = Absent \/ Len(password) < MinPasswordLength
    THEN [valid |-> FALSE, message |-> <<"Password must be at least 6 characters long">>]
    ELSE [valid |-> TRUE]

\* a validateEmail that accepts every non-empty string
validateEmail_AcceptAll(email) ==
  IF email = Absent
    THEN [valid |-> FALSE, message |-> <<"Invalid email format">>]
    ELSE [valid |-> TRUE]

validateEmail(email) ==
  IF email = Absent \/ ~emailRegexTest(email)
    THEN [valid |-> FALSE, message |-> <<"Invalid email format">>]
    ELSE [valid |-> TRUE]

-----------------------------------------------------------------------------
(* HTTP responses and the error handling middleware *)

NoResp == [status |-> 0]
Response(status, json) == [status |-> status, body |-> json]

\* what a handler leaves behind when it returns: the records it logged and
\* the response it sent
Outcome(logs, response) == [logs |-> logs, resp |-> response]

isDevelopment == env.NODE_ENV # "production"

\* err.statusCode || err.status || 500
StatusCodeOr500(err) ==
  IF "statusCode" \in DOMAIN err /\ err.statusCode # 0 THEN err.statusCode
  ELSE IF "status" \in DOMAIN err /\ err.status # 0 THEN err.status
  ELSE 500

\* an error handler that answers with the error's own message and stack in
\* every environment
errorHandler_AlwaysDetailed(err, method, url, reqBody) ==
  LET statusCode == StatusCodeOr500(err)
      message == MessageOr(err, "Internal Server Error")
  IN Outcome(
       <<logRequestError(method, url, reqBody, err, statusCode)>>,
       Response(statusCode,
                [success |-> FALSE,
                 error |-> [message |-> message, stack |-> err.stack]]))

errorHandler(err, method, url, reqBody) ==
  LET statusCode == StatusCodeOr500(err)
      message == MessageOr(err, "Internal Server Error")
  IN Outcome(
       <<logRequestError(method, url, reqBody, err, statusCode)>>,
       Response(statusCode,
                [success |-> FALSE,
                 error |-> IF isDevelopment
                             THEN [message |-> message, stack |-> err.stack]
                             ELSE [message |-> <<"Internal Server Error">>]]))

-----------------------------------------------------------------------------
(* The identity provider (Firebase Auth) as the adapter sees it: the Admin *)
(* SDK calls on `auth` and the password sign-in REST endpoint.  Every call *)
(* either answers from the account table or fails.                         *)

NoFault == ""
Answer(value) == [ok |-> TRUE, fault |-> NoFault, value |-> value]
Failure(error) == [ok |-> FALSE, fault |-> NoFault, error |-> error]

\* an answer by which the provider fails a call for reasons of its own, not
\* because of what the account table holds; code is the provider's error code
Fault(answer, code) == [answer EXCEPT !.fault = code]

\* a fetch that rejects: no answer arrives, so there is no provider code
Transport == "transport"

\* an error of the provider that the adapter has no mapping for
SdkFault == ProviderError("auth/internal-error", <<"An internal error has occurred">>)

\* admin.auth.UserRecord of an account
SdkUser(uid) ==
  [uid |-> uid, email |-> accounts[uid].email,
   emailVerified |-> accounts[uid].emailVerified,
   displayName |-> accounts[uid].displayName]

Registered(email) == email \in ValidEmails /\ accounts[UidOf(email)].exists

AuthGetUserByEmail(email) ==
  { IF Registered(email)
      THEN Answer(SdkUser(UidOf(email)))
      ELSE Failure(ProviderError("auth/user-not-found",
                                 <<"There is no user record for this identifier">>)),
    Fault(Failure(SdkFault), SdkFault.code) }

AuthGetUser(uid) ==
  { IF uid \in AccountUids /\ accounts[uid].exists
      THEN Answer(SdkUser(uid))
      ELSE Failure(ProviderError("auth/user-not-found",
                                 <<"There is no user record for this identifier">>)),
    Fault(Failure(SdkFault), SdkFault.code) }

\* a creation that replaces the account an email already has
AuthCreateUser_Overwrites(email) ==
  { Answer(UidOf(email)), Fault(Failure(SdkFault), SdkFault.code) }

\* auth.createUser: the provider keeps emails unique
AuthCreateUser(email) ==
  { IF Registered(email)
      THEN Failure(ProviderError("auth/email-already-exists",
                                 <<"The email address is already in use">>))
      ELSE Answer(UidOf(email)),
    Fault(Failure(SdkFault), SdkFault.code) }

AuthUpdateUser(uid) ==
  { IF uid \in AccountUids /\ accounts[uid].exists
      THEN Answer(uid)
      ELSE Failure(ProviderError("auth/user-not-found",
                                 <<"There is no user record for this identifier">>)),
    Fault(Failure(SdkFault), SdkFault.code) }

AuthGenerateEmailVerificationLink(email) ==
  { Answer(<<"https://link/", email>>), Fault(Failure(SdkFault), SdkFault.code) }

\* an ID token names the account it was issued for
IdToken(uid) == <<"idToken", uid>>

AuthVerifyIdToken(token) ==
  { Answer([uid |-> token[2]]),
    Fault(Failure(ProviderError("auth/argument-error",
                                <<"Decoding Firebase ID token failed">>)),
          "auth/argument-error") }

\* POST accounts:signInWithPassword.  The endpoint answers 200 with tokens
\* when the password matches (it does not look at emailVerified), 400 with
\* an error body otherwise; it can also refuse for reasons of its own, and
\* the request can fail before any answer arrives (fetch rejects).
SignInOk(uid) ==
  [ok |-> TRUE, status |-> 200, idToken |-> IdToken(uid), refreshToken |-> <<"refresh", uid>>]
SignInError(status, message) ==
  [ok |-> FALSE, status |-> status, error |-> [code |-> status, message |-> message]]

FetchSignIn(email, password) ==
  { Answer(IF ~Registered(email) THEN SignInError(400, <<"EMAIL_NOT_FOUND">>)
           ELSE IF accounts[UidOf(email)].password # password
             THEN SignInError(400, <<"INVALID_PASSWORD">>)
           ELSE SignInOk(UidOf(email))),
    Fault(Answer(SignInError(400, <<"TOO_MANY_ATTEMPTS_TRY_LATER">>)), "400"),
    Fault(Answer(SignInError(503, <<"UNAVAILABLE">>)), "503"),
    Fault(Failure(RawError("TypeError", <<"fetch", " failed">>)), Transport) }

-----------------------------------------------------------------------------
(* services/firebase.service.ts: the adapter.  An operation that throws    *)
(* leaves behind the error and the records it logged on the way.           *)

Thrown(error, logs) == [error |-> error, logs |-> logs]

\* String.prototype.includes on a text given as its sequence of words
Includes(text, word) == \E i \in 1..Len(text) : text[i] = word

\* the names the module imports from utils/errors: an identifier that is
\* not among them is unbound, and evaluating it throws a ReferenceError
ServiceImports ==
  {"FirebaseError", "UserExistsError", "UserNotFoundError", "InvalidTokenError",
   "InvalidCredentialsError"}

ReferenceError(identifier) == RawError("ReferenceError", <<identifier, " is not defined">>)

\* user record returned by the adapter, from the SDK's record
UserRecord(user) ==
  [uid |-> user.uid, email |-> user.email, emailVerified |-> user.emailVerified,
   displayName |-> user.displayName]

\* a createUser that asks for an account that is already verified
NewAccount_Verified(email, password, displayName) ==
  Account(email, password, displayName, TRUE)

\* createUser: what auth.createUser is asked to create
NewAccount(email, password, displayName) == Account(email, password, displayName, FALSE)

\* a verifyEmailByUid that never returns early
AlreadyVerified_Never(user) == FALSE

\* verifyEmailByUid: the test that returns early, without an update
AlreadyVerified(user) == user.emailVerified

\* an update that does not set the flag
VerifiedUpdate_False == [emailVerified |-> FALSE]

\* verifyEmailByUid: the properties auth.updateUser is asked to set
VerifiedUpdate == [emailVerified |-> TRUE]

\* a catch block without the mapping of auth/email-already-exists
CreateUserCatch_NoExistsMapping(error, email) ==
  IF InstanceOf(error, "UserExistsError") \/ InstanceOf(error, "FirebaseError")
    THEN Thrown(error, <<>>)
  ELSE Thrown(FirebaseError(MessageOr(error, "Failed to create user"), 500, CodeOf(error)),
              <<logAuthEvent("user_creation_failed", "error",
                             [email |-> email,
                              error |-> MessageOr(error, "Unknown error")])>>)

\* createUser, catch block
CreateUserCatch(error, email) ==
  IF InstanceOf(error, "UserExistsError") \/ InstanceOf(error, "FirebaseError")
    THEN Thrown(error, <<>>)
  ELSE IF CodeOf(error) = "auth/email-already-exists"
    THEN Thrown(UserExistsError(email), <<>>)
  ELSE Thrown(FirebaseError(MessageOr(error, "Failed to create user"), 500, CodeOf(error)),
              <<logAuthEvent("user_creation_failed", "error",
                             [email |-> email,
                              error |-> MessageOr(error, "Unknown error")])>>)

\* a probe that does not throw UserExists for an account it finds
CreateUserProbe_NoCheck(answer, email) ==
  IF answer.ok
    THEN [proceed |-> TRUE]
  ELSE IF CodeOf(answer.error) # "auth/user-not-found"
    THEN [proceed |-> FALSE, thrown |-> CreateUserCatch(answer.error, email)]
  ELSE [proceed |-> TRUE]

\* createUser, the existence probe and its inner catch: the answer of
\* auth.getUserByEmail either lets the creation go on or makes createUser throw
CreateUserProbe(answer, email) ==
  IF answer.ok
    THEN [proceed |-> FALSE, thrown |-> CreateUserCatch(UserExistsError(email), email)]
  ELSE IF InstanceOf(answer.error, "UserExistsError")
    THEN [proceed |-> FALSE, thrown |-> CreateUserCatch(answer.error, email)]
  ELSE IF CodeOf(answer.error) # "auth/user-not-found"
    THEN [proceed |-> FALSE, thrown |-> CreateUserCatch(answer.error, email)]
  ELSE [proceed |-> TRUE]

\* sendEmailVerification, catch block
SendEmailVerificationCatch(error, uid) ==
  IF InstanceOf(error, "FirebaseError")
    THEN Thrown(error, <<>>)
  ELSE IF CodeOf(error) = "auth/user-not-found"
    THEN Thrown(UserNotFoundError(uid), <<>>)
  ELSE Thrown(FirebaseError(MessageOr(error, "Failed to send email verification"), 500,
                            CodeOf(error)),
              <<logAuthEvent("email_verification_failed", "error",
                             [userId |-> uid,
                              error |-> MessageOr(error, "Unknown error")])>>)

\* how a step of an adapter operation ends: the operation is finished with a
\* result, or goes on to its next provider call
Finished(result, logs) == [finished |-> TRUE, result |-> result, logs |-> logs]
GoesOn == [finished |-> FALSE]

SendEmailVerificationThrew(error, uid) ==
  LET thrown == SendEmailVerificationCatch(error, uid)
  IN Finished([op |-> "sendEmailVerification", threw |-> TRUE, error |-> thrown.error],
              thrown.logs)

\* a sendEmailVerification that does not look at emailVerified
SendEmailVerificationUser_NoVerifiedCheck(answer, uid) ==
  IF ~answer.ok
    THEN SendEmailVerificationThrew(answer.error, uid)
  ELSE IF answer.value.email = <<>>
    THEN SendEmailVerificationThrew(
           FirebaseError(<<"User does not have an email address">>, 400, Undefined), uid)
  ELSE GoesOn

\* sendEmailVerification, from the answer of auth.getUser to the return of
\* the sentinel, a throw, or the request for a link
SendEmailVerificationUser(answer, uid) ==
  IF ~answer.ok
    THEN SendEmailVerificationThrew(answer.error, uid)
  ELSE IF answer.value.email = <<>>
    THEN SendEmailVerificationThrew(
           FirebaseError(<<"User does not have an email address">>, 400, Undefined), uid)
  ELSE IF answer.value.emailVerified
    THEN Finished([op |-> "sendEmailVerification", threw |-> FALSE,
                   value |-> <<"Email is already verified">>],
                  <<logAuthEvent("email_already_verified", "info",
                                 [userId |-> uid, email |-> answer.value.email])>>)
  ELSE GoesOn

\* sendEmailVerification, from the answer of auth.generateEmailVerificationLink
SendEmailVerificationLink(answer, uid, email) ==
  IF answer.ok
    THEN Finished([op |-> "sendEmailVerification", threw |-> FALSE, value |-> answer.value],
                  <<logAuthEvent("email_verification_sent", "info",
                                 [userId |-> uid, email |-> email])>>)
    ELSE SendEmailVerificationThrew(answer.error, uid)

\* a catch block without the mapping of auth/user-not-found
VerifyEmailByUidCatch_NoMapping(error, uid) ==
  IF InstanceOf(error, "FirebaseError")
    THEN Thrown(error, <<>>)
  ELSE Thrown(FirebaseError(MessageOr(error, "Failed to verify email"), 500, CodeOf(error)),
              <<logAuthEvent("email_verification_update_failed", "error",
                             [userId |-> uid,
                              error |-> MessageOr(error, "Unknown error")])>>)

\* verifyEmailByUid, catch block
VerifyEmailByUidCatch(error, uid) ==
  IF InstanceOf(error, "FirebaseError")
    THEN Thrown(error, <<>>)
  ELSE IF CodeOf(error) = "auth/user-not-found"
    THEN Thrown(UserNotFoundError(uid), <<>>)
  ELSE Thrown(FirebaseError(MessageOr(error, "Failed to verify email"), 500, CodeOf(error)),
              <<logAuthEvent("email_verification_update_failed", "error",
                             [userId |-> uid,
                              error |-> MessageOr(error, "Unknown error")])>>)

\* getUserById, catch block
GetUserByIdCatch(error, uid) ==
  IF CodeOf(error) = "auth/user-not-found"
    THEN UserNotFoundError(uid)
    ELSE FirebaseError(MessageOr(error, "Failed to get user"), 500, CodeOf(error))

\* loginUser, catch block: the instanceof chain is evaluated left to right
\* and stops at the first class the error is an instance of
LoginUserCatch(error, email) ==
  IF InstanceOf(error, "InvalidCredentialsError")
    THEN Thrown(error, <<>>)
  ELSE IF "EmailNotVerifiedError" \notin ServiceImports
    THEN Thrown(ReferenceError("EmailNotVerifiedError"), <<>>)
  ELSE IF InstanceOf(error, "EmailNotVerifiedError") \/ InstanceOf(error, "FirebaseError")
    THEN Thrown(error, <<>>)
  ELSE IF error.cls = "TypeError" /\ Includes(error.message, "fetch")
    THEN Thrown(FirebaseError(<<"Network error during login">>, 500, Undefined),
                <<logAuthEvent("login_network_error", "error",
                               [email |-> email, error |-> error.message])>>)
  ELSE Thrown(FirebaseError(MessageOr(error, "Login failed"), 500, CodeOf(error)),
              <<logAuthEvent("login_error", "error",
                             [email |-> email,
                              error |-> MessageOr(error, "Unknown error")])>>)

\* a mapping that tells an unknown email apart from a wrong password
SignInErrorThrown_RevealsNotFound(response) ==
  IF Includes(response.error.message, "EMAIL_NOT_FOUND")
    THEN UserNotFoundError(<<"email">>)
    ELSE InvalidCredentialsError(<<"Invalid email or password">>)

\* loginUser, the branch for a response that is not ok: which error the
\* provider's error body makes the try block throw
SignInErrorThrown(response) ==
  LET hasError == "error" \in DOMAIN response
      errorMessage == IF hasError THEN response.error.message ELSE <<"Login failed">>
      errorCode == IF hasError THEN response.error.code ELSE 0
  IN IF errorCode = 400 \/ Includes(errorMessage, "INVALID_PASSWORD")
                         \/ Includes(errorMessage, "INVALID_EMAIL")
       THEN InvalidCredentialsError(<<"Invalid email or password">>)
     ELSE IF Includes(errorMessage, "USER_NOT_FOUND") \/ Includes(errorMessage, "EMAIL_NOT_FOUND")
       THEN InvalidCredentialsError(<<"Invalid email or password">>)
     ELSE IF Includes(errorMessage, "EMAIL_NOT_VERIFIED")
       THEN IF "EmailNotVerifiedError" \in ServiceImports
              THEN EmailNotVerifiedError(<<"Email address has not been verified">>)
              ELSE ReferenceError("EmailNotVerifiedError")
     ELSE FirebaseError(errorMessage, response.status,
                        IF hasError THEN ToString(errorCode) ELSE "auth/login-failed")

\* loginUser, from a response that is not ok to what loginUser throws
LoginUserRejected(response, email) ==
  LET hasError == "error" \in DOMAIN response
      failed == logAuthEvent("login_failed", "warn",
                  [email |-> email,
                   error |-> IF hasError THEN response.error.message ELSE <<"Login failed">>,
                   code |-> IF hasError THEN ToString(response.error.code)
                                       ELSE "auth/login-failed"])
      caught == LoginUserCatch(SignInErrorThrown(response), email)
  IN Thrown(caught.error, <<failed>> \o caught.logs)

-----------------------------------------------------------------------------
(* controllers/auth.controller.ts: what the handlers do once the adapter   *)
(* has returned or thrown                                                   *)

\* next(errorObj): the error reaches the error handling middleware
NextError(logs, errorObj, url, reqBody) ==
  LET handled == errorHandler(errorObj, "POST", url, reqBody)
  IN Outcome(logs \o handled.logs, handled.resp)

RegisterFailureContext(reqBody, errorValue) ==
  [email |-> reqBody.email, fullName |-> reqBody.fullName, ip |-> ReqIp,
   userAgent |-> ReqUserAgent, error |-> errorValue]

\* register, catch block
RegisterCatch(error, reqBody) ==
  IF InstanceOf(error, "UserExistsError")
    THEN Outcome(<<logRegistration("failure", RegisterFailureContext(reqBody, JsErr(error)))>>,
                 Response(409, [success |-> FALSE, message |-> error.message]))
  ELSE IF InstanceOf(error, "FirebaseError")
    THEN Outcome(<<logRegistration("failure", RegisterFailureContext(reqBody, JsErr(error)))>>,
                 Response(error.statusCode, [success |-> FALSE, message |-> error.message]))
  ELSE NextError(<<logRegistration("failure", RegisterFailureContext(reqBody, JsErr(error)))>>,
                 error, "/register", reqBody)

\* a register that fails when the verification mail could not be sent
RegisterCreated_FailsUnsent(userRecord, fullName, sent, verificationError) ==
  IF sent
    THEN Outcome(<<logAuthEvent("email_verification_link_sent", "info",
                                [userId |-> userRecord.uid, email |-> userRecord.email]),
                   logRegistration("success",
                                   [userId |-> userRecord.uid, email |-> userRecord.email,
                                    fullName |-> fullName])>>,
                 Response(201,
                          [success |-> TRUE, userId |-> userRecord.uid,
                           emailVerified |-> userRecord.emailVerified,
                           message |-> <<"User registered successfully. Please check your email for verification.">>]))
    ELSE Outcome(<<logAuthEvent("email_verification_link_failed", "warn",
                                [userId |-> userRecord.uid, email |-> userRecord.email,
                                 error |-> verificationError.message])>>,
                 Response(500, [success |-> FALSE, message |-> verificationError.message]))

\* register, after createUser has returned userRecord and
\* sendEmailVerification has returned (sent) or thrown (verificationError)
RegisterCreated(userRecord, fullName, sent, verificationError) ==
  Outcome(
    << IF sent
         THEN logAuthEvent("email_verification_link_sent", "info",
                           [userId |-> userRecord.uid, email |-> userRecord.email])
         ELSE logAuthEvent("email_verification_link_failed", "warn",
                           [userId |-> userRecord.uid, email |-> userRecord.email,
                            error |-> verificationError.message]),
       logRegistration("success",
                       [userId |-> userRecord.uid, email |-> userRecord.email,
                        fullName |-> fullName]) >>,
    Response(201,
             [success |-> TRUE, userId |-> userRecord.uid,
              emailVerified |-> userRecord.emailVerified,
              message |-> <<"User registered successfully. Please check your email for verification.">>]))

\* verifyEmail, after verifyEmailByUid has returned userRecord
VerifyEmailReturned(userRecord, uid) ==
  Outcome(<<logAuthEvent("email_verification_success", "info",
                         [userId |-> uid, email |-> userRecord.email])>>,
          Response(200, [success |-> TRUE, emailVerified |-> userRecord.emailVerified,
                         message |-> <<"Email verified successfully">>]))

\* a catch block that answers 400 for an unknown uid
VerifyEmailCatch_400(error, reqBody) ==
  Outcome(<<logAuthEvent("email_verification_failed", "warn",
                         [userId |-> reqBody.uid, ip |-> ReqIp, error |-> error.message])>>,
          Response(400, [success |-> FALSE, message |-> error.message]))

\* verifyEmail, catch block
VerifyEmailCatch(error, reqBody) ==
  IF InstanceOf(error, "UserNotFoundError")
    THEN Outcome(<<logAuthEvent("email_verification_failed", "warn",
                                [userId |-> reqBody.uid, ip |-> ReqIp,
                                 error |-> error.message])>>,
                 Response(404, [success |-> FALSE, message |-> error.message]))
  ELSE IF InstanceOf(error, "FirebaseError")
    THEN Outcome(<<logAuthEvent("email_verification_failed", "error",
                                [userId |-> reqBody.uid, ip |-> ReqIp,
                                 error |-> error.message])>>,
                 Response(error.statusCode, [success |-> FALSE, message |-> error.message]))
  ELSE NextError(<<logAuthEvent("email_verification_failed", "error",
                                [userId |-> reqBody.uid, ip |-> ReqIp, error |-> error])>>,
                 error, "/verify-email", reqBody)

LoginFailureContext(reqBody, errorValue) ==
  [email |-> reqBody.email, ip |-> ReqIp, userAgent |-> ReqUserAgent, error |-> errorValue]

\* login, after loginUser has returned loginResult
LoginReturned(loginResult) ==
  Outcome(<<logLoginAttempt(TRUE, [userId |-> loginResult.user.uid,
                                   email |-> loginResult.user.email, ip |-> ReqIp])>>,
          Response(200, [success |-> TRUE, userId |-> loginResult.user.uid,
                         emailVerified |-> loginResult.user.emailVerified,
                         token |-> loginResult.idToken]))

\* a catch block that adds the error's code to the 401 body
LoginCatch_WithCode(error, reqBody) ==
  IF InstanceOf(error, "InvalidCredentialsError")
    THEN Outcome(<<logLoginAttempt(FALSE, LoginFailureContext(reqBody, JsStr(error.message)))>>,
                 Response(401, [success |-> FALSE, message |-> error.message,
                                code |-> error.code]))
  ELSE IF InstanceOf(error, "FirebaseError")
    THEN Outcome(<<logLoginAttempt(FALSE, LoginFailureContext(reqBody, JsStr(error.message)))>>,
                 Response(error.statusCode, [success |-> FALSE, message |-> error.message]))
  ELSE NextError(<<logLoginAttempt(FALSE, LoginFailureContext(reqBody, JsErr(error)))>>,
                 error, "/login", reqBody)

\* login, catch block
LoginCatch(error, reqBody) ==
  IF InstanceOf(error, "InvalidCredentialsError")
    THEN Outcome(<<logLoginAttempt(FALSE, LoginFailureContext(reqBody, JsStr(error.message)))>>,
                 Response(401, [success |-> FALSE, message |-> error.message]))
  ELSE IF InstanceOf(error, "EmailNotVerifiedError")
    THEN Outcome(<<logLoginAttempt(FALSE, LoginFailureContext(reqBody, JsStr(error.message)))>>,
                 Response(403, [success |-> FALSE, message |-> error.message]))
  ELSE IF InstanceOf(error, "FirebaseError")
    THEN Outcome(<<logLoginAttempt(FALSE, LoginFailureContext(reqBody, JsStr(error.message)))>>,
                 Response(error.statusCode, [success |-> FALSE, message |-> error.message]))
  ELSE NextError(<<logLoginAttempt(FALSE, LoginFailureContext(reqBody, JsErr(error)))>>,
                 error, "/login", reqBody)

-----------------------------------------------------------------------------
(* The state machine *)

Returned(op, value) == [op |-> op, threw |-> FALSE, value |-> value]
Threw(op, error) == [op |-> op, threw |-> TRUE, error |-> error]

NoLocal == <<>>

\* who emits a record: an adapter operation, named by its name, or one of
\* the adapter's callers (a handler, the middleware, another module)
AdapterOps == {"createUser", "sendEmailVerification", "verifyEmailByUid", "loginUser"}
Caller == "caller"
By(who, logs) == [i \in 1..Len(logs) |-> [by |-> who, record |-> logs[i]]]
Records(entries) == [i \in 1..Len(entries) |-> entries[i].record]
Emitters(entries) == [i \in 1..Len(entries) |-> entries[i].by]

InitAccounts ==
  [u \in AccountUids |->
     IF u = PhoneUid THEN Account(Absent, Absent, Absent, FALSE) ELSE NoAccount]

\* config/firebase.config.ts refuses to load without FIREBASE_PROJECT_ID, so
\* a running program has it; the Web API key is read at the first login
Environments ==
  { [NODE_ENV |-> n, FIREBASE_PROJECT_ID |-> TRUE, FIREBASE_WEB_API_KEY |-> k] :
      n \in {"production", "development"}, k \in BOOLEAN }

\* the program with the given request slots, before any request
InitProgram(slots) ==
  /\ accounts = InitAccounts
  /\ updates = [u \in AccountUids |-> 0]
  /\ env \in Environments
  /\ pc = [r \in slots |-> "idle"]
  /\ route = [r \in slots |-> "none"]
  /\ body = [r \in slots |-> <<>>]
  /\ local = [r \in slots |-> NoLocal]
  /\ results = [r \in slots |-> <<>>]
  /\ calls = [r \in slots |-> <<>>]
  /\ log = [r \in slots |-> <<>>]
  /\ resp = [r \in slots |-> NoResp]
  /\ faulted = [r \in slots |-> NoFault]
  /\ before = [r \in slots |-> InitAccounts]
  /\ emitter = [r \in slots |-> <<>>]

\* the server with a log sink that works
Init == InitProgram(Reqs) /\ sink = "ok"

\* a free slot takes a new request: the handler runs up to its first await
\* (nextPc) or to its response
Accept(r, rt, reqBody, nextPc, newLocal, newResults, newCalls, logs, response) ==
  /\ pc[r] \in {"idle", "done"}
  /\ pc' = [pc EXCEPT ![r] = nextPc]
  /\ route' = [route EXCEPT ![r] = rt]
  /\ body' = [body EXCEPT ![r] = reqBody]
  /\ local' = [local EXCEPT ![r] = newLocal]
  /\ results' = [results EXCEPT ![r] = newResults]
  /\ calls' = [calls EXCEPT ![r] = newCalls]
  /\ log' = [log EXCEPT ![r] = Records(logs)]
  /\ emitter' = [emitter EXCEPT ![r] = Emitters(logs)]
  /\ resp' = [resp EXCEPT ![r] = response]
  /\ faulted' = [faulted EXCEPT ![r] = NoFault]
  /\ before' = [before EXCEPT ![r] = accounts]
  /\ UNCHANGED <<accounts, updates, env, sink>>

\* a suspended handler resumes with the provider's answer and runs up to its
\* next await (nextPc) or to its response
Resume(r, answer, nextPc, newLocal, newResults, newCalls, logs, response) ==
  /\ pc' = [pc EXCEPT ![r] = nextPc]
  /\ local' = [local EXCEPT ![r] = newLocal]
  /\ results' = [results EXCEPT ![r] = @ \o newResults]
  /\ calls' = [calls EXCEPT ![r] = @ \o newCalls]
  /\ log' = [log EXCEPT ![r] = @ \o Records(logs)]
  /\ emitter' = [emitter EXCEPT ![r] = @ \o Emitters(logs)]
  /\ resp' = [resp EXCEPT ![r] = response]
  /\ faulted' = [faulted EXCEPT ![r] = IF @ = NoFault THEN answer.fault ELSE @]
  /\ UNCHANGED before
  /\ UNCHANGED <<route, body, env, sink>>

\* the handler's catch block has produced its outcome for an adapter
\* operation that threw
ResumeThrown(r, answer, op, thrown, outcome) ==
  Resume(r, answer, "done", NoLocal, <<Threw(op, thrown.error)>>, <<>>,
         By(op, thrown.logs) \o By(Caller, outcome.logs), outcome.resp)

\* what logger[level](...) throws when the sink is broken
SinkError == RawError("Error", <<"write", " failed">>)

\* what the framework answers when a handler's promise rejects or the error
\* middleware itself throws: Express 4 leaves a rejected async handler
\* unanswered, Express 5 forwards the rejection and ends with its own 500
FrameworkError == Response(500, [html |-> <<"Internal Server Error">>])
UnhandledRejection == {NoResp, FrameworkError}

\* a handler whose first emission throws: the wrappers do not catch, the
\* exception lands in the handler's catch block, whose own emission throws
\* again, and the handler's promise rejects before any provider call
HandlerRejected(r, rt, reqBody) ==
  \E response \in UnhandledRejection :
    Accept(r, rt, reqBody, "done", NoLocal, <<Threw(rt, SinkError)>>, <<>>, <<>>, response)

-----------------------------------------------------------------------------
(* POST /register *)

\* register up to `await createUser`, createUser up to `await auth.getUserByEmail`
ReceiveRegister(r, emails, fullNames, passwords) ==
  \E email \in emails, fullName \in fullNames, password \in passwords :
    LET reqBody == [email |-> email, fullName |-> fullName, password |-> password]
        attempt == logRegistration("attempt",
                     [email |-> email, fullName |-> fullName, ip |-> ReqIp,
                      userAgent |-> ReqUserAgent])
        emailValidation == validateEmail(email)
        passwordValidation == validatePassword(password)
        schema == [schema |-> "user_registration"]
        Reject(entry, message) ==
          Accept(r, "register", reqBody, "done", NoLocal, <<>>, <<>>,
                 By(Caller, <<attempt, entry>>),
                 Response(400, [success |-> FALSE, message |-> message]))
    IN IF sink = "broken"
         THEN HandlerRejected(r, "register", reqBody)
       ELSE IF email = Absent \/ fullName = Absent \/ password = Absent
         THEN Reject(logValidationError("registration_fields", JsObj(reqBody),
                                        <<"Missing required fields">>, schema),
                     <<"Email, fullName, and password are required">>)
       ELSE IF ~emailValidation.valid
         THEN Reject(logValidationError("email", JsStr(email), emailValidation.message, schema),
                     emailValidation.message)
       ELSE IF ~passwordValidation.valid
         THEN Reject(logValidationError("password", JsStr(<<"***">>),
                                        passwordValidation.message, schema),
                     passwordValidation.message)
       ELSE Accept(r, "register", reqBody, "reg_getUserByEmail", NoLocal, <<>>,
                   <<"auth.getUserByEmail">>, By(Caller, <<attempt>>), NoResp)

\* createUser: the probe answers
RegGetUserByEmail(r) ==
  /\ pc[r] = "reg_getUserByEmail"
  /\ \E answer \in AuthGetUserByEmail(body[r].email) :
       LET probe == CreateUserProbe(answer, body[r].email)
       IN IF probe.proceed
            THEN Resume(r, answer, "reg_createUser", NoLocal, <<>>, <<"auth.createUser">>,
                        <<>>, NoResp)
            ELSE ResumeThrown(r, answer, "createUser", probe.thrown,
                              RegisterCatch(probe.thrown.error, body[r]))
  /\ UNCHANGED <<accounts, updates>>

\* createUser: auth.createUser answers; on success createUser returns and
\* register goes on to `await sendEmailVerification`, which awaits auth.getUser
RegCreateUser(r) ==
  /\ pc[r] = "reg_createUser"
  /\ \E answer \in AuthCreateUser(body[r].email) :
       IF answer.ok
         THEN LET uid == answer.value
                  created == NewAccount(body[r].email, body[r].password, body[r].fullName)
                  userRecord == [uid |-> uid, email |-> created.email,
                                 emailVerified |-> created.emailVerified,
                                 displayName |-> created.displayName]
              IN /\ accounts' = [accounts EXCEPT ![uid] = created]
                 /\ Resume(r, answer, "reg_getUser", [userRecord |-> userRecord],
                           <<Returned("createUser", userRecord)>>, <<"auth.getUser">>,
                           By("createUser",
                              <<logAuthEvent("user_created", "info",
                                             [userId |-> uid, email |-> created.email])>>),
                           NoResp)
         ELSE LET thrown == CreateUserCatch(answer.error, body[r].email)
              IN /\ UNCHANGED accounts
                 /\ ResumeThrown(r, answer, "createUser", thrown,
                                 RegisterCatch(thrown.error, body[r]))
  /\ UNCHANGED updates

\* register, once sendEmailVerification has returned or thrown
RegisterAfterVerification(r, answer, result, logs) ==
  LET outcome == RegisterCreated(local[r].userRecord, body[r].fullName, ~result.threw,
                                 IF result.threw THEN result.error ELSE <<>>)
  IN Resume(r, answer, "done", NoLocal, <<result>>, <<>>,
            By("sendEmailVerification", logs) \o By(Caller, outcome.logs), outcome.resp)

\* sendEmailVerification: auth.getUser answers
RegGetUser(r) ==
  /\ pc[r] = "reg_getUser"
  /\ LET uid == local[r].userRecord.uid
     IN \E answer \in AuthGetUser(uid) :
          LET step == SendEmailVerificationUser(answer, uid)
          IN IF step.finished
               THEN RegisterAfterVerification(r, answer, step.result, step.logs)
               ELSE Resume(r, answer, "reg_generateLink",
                      [userRecord |-> local[r].userRecord, user |-> answer.value],
                      <<>>, <<"auth.generateEmailVerificationLink">>, <<>>, NoResp)
  /\ UNCHANGED <<accounts, updates>>

\* sendEmailVerification: auth.generateEmailVerificationLink answers
RegGenerateLink(r) ==
  /\ pc[r] = "reg_generateLink"
  /\ LET uid == local[r].userRecord.uid
     IN \E answer \in AuthGenerateEmailVerificationLink(local[r].user.email) :
          LET step == SendEmailVerificationLink(answer, uid, local[r].user.email)
          IN RegisterAfterVerification(r, answer, step.result, step.logs)
  /\ UNCHANGED <<accounts, updates>>

-----------------------------------------------------------------------------
(* POST /login *)

\* login up to `await loginUser`, loginUser up to `await fetch`
ReceiveLogin(r, emails, passwords) ==
  \E email \in emails, password \in passwords :
    LET reqBody == [email |-> email, password |-> password]
        emailValidation == validateEmail(email)
        schema == [schema |-> "user_login"]
        attempt == logLoginAttempt(FALSE, [email |-> email, ip |-> ReqIp,
                                           userAgent |-> ReqUserAgent])
        Reject(entry, message) ==
          Accept(r, "login", reqBody, "done", NoLocal, <<>>, <<>>, By(Caller, <<entry>>),
                 Response(400, [success |-> FALSE, message |-> message]))
        Fail(error) ==
          LET thrown == LoginUserCatch(error, email)
              outcome == LoginCatch(thrown.error, reqBody)
          IN Accept(r, "login", reqBody, "done", NoLocal,
                    <<Threw("loginUser", thrown.error)>>, <<>>,
                    By(Caller, <<attempt>>) \o By("loginUser", thrown.logs)
                      \o By(Caller, outcome.logs),
                    outcome.resp)
    IN IF sink = "broken"
         THEN HandlerRejected(r, "login", reqBody)
       ELSE IF email = Absent \/ password = Absent
         THEN Reject(logValidationError("login_fields", JsObj(reqBody),
                                        <<"Missing required fields">>, schema),
                     <<"Email and password are required">>)
       ELSE IF ~emailValidation.valid
         THEN Reject(logValidationError("email", JsStr(email), emailValidation.message, schema),
                     emailValidation.message)
       ELSE IF ~env.FIREBASE_WEB_API_KEY
         THEN Fail(RawError("Error", <<"Missing FIREBASE_WEB_API_KEY in environment variables">>))
       ELSE IF ~env.FIREBASE_PROJECT_ID
         THEN Fail(FirebaseError(<<"FIREBASE_PROJECT_ID is not configured">>, 500, Undefined))
       ELSE Accept(r, "login", reqBody, "login_fetch", NoLocal, <<>>,
                   <<"fetch signInWithPassword">>, By(Caller, <<attempt>>), NoResp)

\* loginUser throws: login's catch block answers
LoginThrown(r, answer, thrown) ==
  ResumeThrown(r, answer, "loginUser", thrown, LoginCatch(thrown.error, body[r]))

\* a loginUser that trusts the sign-in response: it goes on to fetch the user
\* named by the response's token without auth.verifyIdToken
LoginFetch_NoVerify(r) ==
  /\ pc[r] = "login_fetch"
  /\ \E answer \in FetchSignIn(body[r].email, body[r].password) :
       IF ~answer.ok
         THEN LoginThrown(r, answer, LoginUserCatch(answer.error, body[r].email))
       ELSE IF ~answer.value.ok
         THEN LoginThrown(r, answer, LoginUserRejected(answer.value, body[r].email))
       ELSE Resume(r, answer, "login_getUser",
                   [data |-> answer.value, decodedToken |-> [uid |-> answer.value.idToken[2]]],
                   <<>>, <<"auth.getUser">>, <<>>, NoResp)
  /\ UNCHANGED <<accounts, updates>>

\* loginUser: the sign-in request is answered, or fails in transport
LoginFetch(r) ==
  /\ pc[r] = "login_fetch"
  /\ \E answer \in FetchSignIn(body[r].email, body[r].password) :
       IF ~answer.ok
         THEN LoginThrown(r, answer, LoginUserCatch(answer.error, body[r].email))
       ELSE IF ~answer.value.ok
         THEN LoginThrown(r, answer, LoginUserRejected(answer.value, body[r].email))
       ELSE Resume(r, answer, "login_verifyIdToken", [data |-> answer.value], <<>>,
                   <<"auth.verifyIdToken">>, <<>>, NoResp)
  /\ UNCHANGED <<accounts, updates>>

\* loginUser: auth.verifyIdToken answers
LoginVerifyIdToken(r) ==
  /\ pc[r] = "login_verifyIdToken"
  /\ \E answer \in AuthVerifyIdToken(local[r].data.idToken) :
       IF ~answer.ok
         THEN LoginThrown(r, answer, LoginUserCatch(answer.error, body[r].email))
         ELSE Resume(r, answer, "login_getUser",
                     [data |-> local[r].data, decodedToken |-> answer.value], <<>>,
                     <<"auth.getUser">>, <<>>, NoResp)
  /\ UNCHANGED <<accounts, updates>>

\* loginUser: getUserById's auth.getUser answers
LoginGetUser(r) ==
  /\ pc[r] = "login_getUser"
  /\ LET uid == local[r].decodedToken.uid
     IN \E answer \in AuthGetUser(uid) :
          IF ~answer.ok
            THEN LoginThrown(r, answer,
                             LoginUserCatch(GetUserByIdCatch(answer.error, uid), body[r].email))
            ELSE LET userRecord == UserRecord(answer.value)
                     loginResult == [user |-> userRecord, idToken |-> local[r].data.idToken,
                                     refreshToken |-> local[r].data.refreshToken]
                     outcome == LoginReturned(loginResult)
                 IN Resume(r, answer, "done", NoLocal,
                           <<Returned("loginUser", loginResult)>>, <<>>,
                           By("loginUser",
                              <<logAuthEvent("login_success", "info",
                                             [userId |-> userRecord.uid,
                                              email |-> userRecord.email])>>)
                             \o By(Caller, outcome.logs),
                           outcome.resp)
  /\ UNCHANGED <<accounts, updates>>

-----------------------------------------------------------------------------
(* POST /verify-email *)

\* verifyEmail up to `await verifyEmailByUid`, which awaits auth.getUser
ReceiveVerifyEmail(r, uids) ==
  \E uid \in uids :
    LET reqBody == [uid |-> uid]
    IN IF sink = "broken"
         THEN HandlerRejected(r, "verify-email", reqBody)
       ELSE IF uid = ""
         THEN Accept(r, "verify-email", reqBody, "done", NoLocal, <<>>, <<>>,
                     By(Caller, <<logValidationError("uid", JsObj(reqBody),
                                                     <<"Missing required field: uid">>,
                                                     [schema |-> "email_verification"])>>),
                     Response(400, [success |-> FALSE,
                                    message |-> <<"User ID (uid) is required">>]))
         ELSE Accept(r, "verify-email", reqBody, "ver_getUser", NoLocal, <<>>,
                     <<"auth.getUser">>,
                     By(Caller, <<logAuthEvent("email_verification_attempt", "info",
                                               [userId |-> uid, ip |-> ReqIp,
                                                userAgent |-> ReqUserAgent])>>),
                     NoResp)

\* verifyEmailByUid throws: verifyEmail's catch block answers
VerifyThrown(r, answer) ==
  LET thrown == VerifyEmailByUidCatch(answer.error, body[r].uid)
  IN ResumeThrown(r, answer, "verifyEmailByUid", thrown,
                  VerifyEmailCatch(thrown.error, body[r]))

\* verifyEmailByUid returns: verifyEmail answers 200
VerifyReturned(r, answer, user, logs) ==
  LET userRecord == [uid |-> user.uid, email |-> user.email, emailVerified |-> TRUE,
                     displayName |-> user.displayName]
      outcome == VerifyEmailReturned(userRecord, body[r].uid)
  IN Resume(r, answer, "done", NoLocal, <<Returned("verifyEmailByUid", userRecord)>>, <<>>,
            By("verifyEmailByUid", logs) \o By(Caller, outcome.logs), outcome.resp)

\* verifyEmailByUid: the first auth.getUser answers
VerGetUser(r) ==
  /\ pc[r] = "ver_getUser"
  /\ \E answer \in AuthGetUser(body[r].uid) :
       IF ~answer.ok
         THEN VerifyThrown(r, answer)
       ELSE IF AlreadyVerified(answer.value)
         THEN VerifyReturned(r, answer, answer.value, <<>>)
       ELSE Resume(r, answer, "ver_updateUser", [user |-> answer.value], <<>>,
                   <<"auth.updateUser">>, <<>>, NoResp)
  /\ UNCHANGED <<accounts, updates>>

\* verifyEmailByUid: auth.updateUser(uid, {emailVerified: true}) answers
VerUpdateUser(r) ==
  /\ pc[r] = "ver_updateUser"
  /\ \E answer \in AuthUpdateUser(body[r].uid) :
       IF ~answer.ok
         THEN /\ VerifyThrown(r, answer)
              /\ UNCHANGED <<accounts, updates>>
         ELSE /\ accounts' = [accounts EXCEPT ![answer.value] = VerifiedUpdate @@ @]
              /\ updates' = [updates EXCEPT ![answer.value] = @ + 1]
              /\ Resume(r, answer, "ver_getUserAgain", local[r], <<>>, <<"auth.getUser">>,
                        By("verifyEmailByUid",
                           <<logAuthEvent("email_verified", "info",
                                          [userId |-> body[r].uid,
                                           email |-> local[r].user.email])>>),
                        NoResp)

\* verifyEmailByUid: the second auth.getUser answers
VerGetUserAgain(r) ==
  /\ pc[r] = "ver_getUserAgain"
  /\ \E answer \in AuthGetUser(body[r].uid) :
       IF ~answer.ok
         THEN VerifyThrown(r, answer)
         ELSE VerifyReturned(r, answer, answer.value, <<>>)
  /\ UNCHANGED <<accounts, updates>>

-----------------------------------------------------------------------------
(* index.ts: the middleware around the routes *)

Urls == {"/register", "/login", "/verify-email"}

\* what express.json() passes to next() for a body it cannot accept: an
\* error that carries statusCode and status
BodyParserErrors ==
  { [statusCode |-> 400, status |-> 400, type |-> "entity.parse.failed"]
      @@ RawError("SyntaxError", <<"Unexpected token } in JSON">>),
    [statusCode |-> 413, status |-> 413, type |-> "entity.too.large"]
      @@ RawError("PayloadTooLargeError", <<"request entity too large">>) }

\* a request whose body express.json() refuses never reaches a route: the
\* error goes to the error handling middleware, with req.body still {}
ReceiveRefusedBody(r) ==
  \E url \in Urls, err \in BodyParserErrors :
    LET reqBody == <<>>
        handled == errorHandler(err, "POST", url, reqBody)
    IN IF sink = "broken"
         THEN Accept(r, "express.json", reqBody, "done", NoLocal,
                     <<Threw("errorHandler", SinkError)>>, <<>>, <<>>, FrameworkError)
         ELSE Accept(r, "express.json", reqBody, "done", NoLocal,
                     <<Threw("express.json", err)>>, <<>>, By(Caller, handled.logs),
                     handled.resp)

-----------------------------------------------------------------------------

Next ==
  \E r \in Reqs :
    \/ ReceiveRegister(r, EmailInputs, NameInputs, PasswordInputs)
    \/ RegGetUserByEmail(r)
    \/ RegCreateUser(r)
    \/ RegGetUser(r)
    \/ RegGenerateLink(r)
    \/ ReceiveLogin(r, EmailInputs, PasswordInputs)
    \/ LoginFetch(r)
    \/ LoginVerifyIdToken(r)
    \/ LoginGetUser(r)
    \/ ReceiveVerifyEmail(r, UidInputs)
    \/ VerGetUser(r)
    \/ VerUpdateUser(r)
    \/ VerGetUserAgain(r)
    \/ ReceiveRefusedBody(r)

Spec == Init /\ [][Next]_vars

-----------------------------------------------------------------------------
(* The logger wrappers called directly, as any module of the program may   *)
(* call them, and a log sink that may be broken.  A call occupies a slot   *)
(* like a request does: body holds the arguments, log what was emitted.    *)

SinkStates == {"ok", "broken"}

\* events and contexts the callers pass
CallerEvents == {"cache_refresh", "payment_error"}
SomeError == RawError("Error", <<"boom">>)
ErrorArguments == {JsErr(SomeError), JsStr(<<"boom">>)}
PlainContexts == {[userId |-> "u1"]}
WithError(contexts) == contexts \cup {[error |-> e] : e \in ErrorArguments}
ErrorContexts == WithError(PlainContexts)

\* the wrapper has no try/catch around logger[level](...): it returns once
\* the record is emitted, and throws what the sink throws
WrapperCall(r, wrapper, arguments, record) ==
  IF sink = "broken"
    THEN Accept(r, "logger", [wrapper |-> wrapper] @@ arguments, "done", NoLocal,
                <<Threw(wrapper, SinkError)>>, <<>>, <<>>, NoResp)
    ELSE Accept(r, "logger", [wrapper |-> wrapper] @@ arguments, "done", NoLocal,
                <<Returned(wrapper, Undefined)>>, <<>>, By(Caller, <<record>>), NoResp)

CallAuthLogger(r, contexts) ==
  \/ \E event \in CallerEvents, level \in LogLevels, context \in contexts :
       WrapperCall(r, "logAuthEvent", [event |-> event, level |-> level],
                   logAuthEvent(event, level, context))
  \/ \E event \in {"attempt", "success", "failure"}, context \in WithError(contexts) :
       WrapperCall(r, "logRegistration", [event |-> event],
                   logRegistration(event, context))
  \/ \E success \in BOOLEAN, context \in WithError(contexts) :
       WrapperCall(r, "logLoginAttempt", [success |-> success],
                   logLoginAttempt(success, context))
  \/ \E context \in contexts :
       WrapperCall(r, "logPermissionDenied", <<>>, logPermissionDenied(context))

CallSecurityLogger(r, contexts) ==
  \/ \E event \in CallerEvents, level \in LogLevels, context \in contexts :
       WrapperCall(r, "logSecurityEvent", [event |-> event, level |-> level],
                   logSecurityEvent(event, level, context))
  \/ \E context \in contexts :
       WrapperCall(r, "logFailedAuthAttempt", <<>>, logFailedAuthAttempt(context))

CallValidationLogger(r, contexts) ==
  \/ \E context \in contexts :
       WrapperCall(r, "logValidationError", [field |-> "email"],
                   logValidationError("email", JsStr(NoDotEmail),
                                      <<"Invalid email format">>, context))
  \/ \E error \in ErrorArguments, context \in contexts :
       WrapperCall(r, "logSchemaError", [schema |-> "user_registration"],
                   logSchemaError(error, "user_registration", context))

CallApiLogger(r, contexts) ==
  \/ \E context \in contexts :
       WrapperCall(r, "logApiCall", [service |-> "maps"],
                   logApiCall("maps", "GET", "/geocode", context))
  \/ \E error \in ErrorArguments, context \in contexts :
       WrapperCall(r, "logApiError", [service |-> "maps"],
                   logApiError("maps", error, context))

CallBusinessLogger(r, contexts) ==
  \/ \E event \in CallerEvents, context \in contexts :
       WrapperCall(r, "logBusinessEvent", [event |-> event],
                   logBusinessEvent(event, context))
  \/ \E event \in CallerEvents, error \in ErrorArguments, context \in contexts :
       WrapperCall(r, "logBusinessError", [event |-> event],
                   logBusinessError(event, error, context))

CallApplicationLogger(r, contexts) ==
  \/ \E event \in CallerEvents, level \in LogLevels, context \in contexts :
       WrapperCall(r, "logApplicationEvent", [event |-> event, level |-> level],
                   logApplicationEvent(event, level, context))
  \/ \E event \in {"startup", "shutdown", "config_change", "health_check"},
        context \in contexts :
       WrapperCall(r, "logSystemEvent", [event |-> event], logSystemEvent(event, context))

CallDatabaseLogger(r, contexts) ==
  \/ \E context \in contexts :
       WrapperCall(r, "logDatabaseError", <<>>, logDatabaseError(SomeError, context))
  \/ \E event \in {"connected", "disconnected", "error"},
        context \in contexts \cup {[error |-> SomeError]} :
       WrapperCall(r, "logDatabaseConnection", [event |-> event],
                   logDatabaseConnection(event, context))
  \/ \E context \in contexts :
       WrapperCall(r, "logSlowQuery", <<>>, logSlowQuery("SELECT 1", 2000, 1000, context))

CallPerformanceLogger(r, contexts) ==
  \/ \E context \in contexts :
       WrapperCall(r, "logPerformance", <<>>, logPerformance("geocode", 12, context))
  \/ \E context \in contexts :
       WrapperCall(r, "logTimeout", <<>>, logTimeout("geocode", 5000, context))

LoggingInit == InitProgram(Reqs) /\ sink \in SinkStates

LoggingNext ==
  \/ Next
  \/ \E r \in Reqs :
       \/ CallAuthLogger(r, PlainContexts)
       \/ CallSecurityLogger(r, PlainContexts)
       \/ CallValidationLogger(r, PlainContexts)
       \/ CallApiLogger(r, PlainContexts)
       \/ CallBusinessLogger(r, PlainContexts)
       \/ CallApplicationLogger(r, PlainContexts)
       \/ CallDatabaseLogger(r, PlainContexts)
       \/ CallPerformanceLogger(r, PlainContexts)

LoggingSpec == LoggingInit /\ [][LoggingNext]_vars

-----------------------------------------------------------------------------
(* The logger wrappers called with contexts of the caller's choosing: the  *)
(* context interfaces carry `[key: string]: any`, so a context may hold    *)
(* any key, `type` and `event` included.                                   *)

AnyKeyContexts == PlainContexts \cup {[type |-> "spoofed"], [event |-> "spoofed"]}

EnvelopeNext ==
  \E r \in Reqs :
    \/ CallAuthLogger(r, AnyKeyContexts)
    \/ CallSecurityLogger(r, AnyKeyContexts)
    \/ CallValidationLogger(r, AnyKeyContexts)
    \/ CallApiLogger(r, AnyKeyContexts)
    \/ CallBusinessLogger(r, AnyKeyContexts)
    \/ CallApplicationLogger(r, AnyKeyContexts)
    \/ CallDatabaseLogger(r, AnyKeyContexts)
    \/ CallPerformanceLogger(r, AnyKeyContexts)

EnvelopeSpec == Init /\ [][EnvelopeNext]_vars

-----------------------------------------------------------------------------
(* sendEmailVerification called on its own, as a module that re-sends the  *)
(* verification mail would call it, for any uid.  The call occupies a slot *)
(* like a request does: body holds the argument.                           *)

\* the adapter operation has finished: the slot keeps its result
AdapterFinished(r, answer, step) ==
  Resume(r, answer, "done", NoLocal, <<step.result>>, <<>>,
         By("sendEmailVerification", step.logs), NoResp)

CallSendEmailVerification(r, uids) ==
  \E uid \in uids :
    Accept(r, "sendEmailVerification", [uid |-> uid], "sev_getUser", NoLocal, <<>>,
           <<"auth.getUser">>, <<>>, NoResp)

\* sendEmailVerification: auth.getUser answers
SevGetUser(r) ==
  /\ pc[r] = "sev_getUser"
  /\ \E answer \in AuthGetUser(body[r].uid) :
       LET step == SendEmailVerificationUser(answer, body[r].uid)
       IN IF step.finished
            THEN AdapterFinished(r, answer, step)
            ELSE Resume(r, answer, "sev_generateLink", [user |-> answer.value], <<>>,
                        <<"auth.generateEmailVerificationLink">>, <<>>, NoResp)
  /\ UNCHANGED <<accounts, updates>>

\* sendEmailVerification: auth.generateEmailVerificationLink answers
SevGenerateLink(r) ==
  /\ pc[r] = "sev_generateLink"
  /\ \E answer \in AuthGenerateEmailVerificationLink(local[r].user.email) :
       AdapterFinished(r, answer,
                       SendEmailVerificationLink(answer, body[r].uid, local[r].user.email))
  /\ UNCHANGED <<accounts, updates>>

AdapterNext ==
  \/ Next
  \/ \E r \in Reqs :
       \/ CallSendEmailVerification(r, UidInputs \ {""})
       \/ SevGetUser(r)
       \/ SevGenerateLink(r)

AdapterSpec == Init /\ [][AdapterNext]_vars

-----------------------------------------------------------------------------
(* Requests in flight at the same time.  Node runs one handler at a time,  *)
(* but a handler gives way at every await: with two slots the steps of two *)
(* requests, and of direct sendEmailVerification calls, interleave at the  *)
(* provider calls.  The requests are about one account.                    *)

ConcurrentSlots == {1, 2}

\* what the concurrent requests carry: one email, two valid passwords
ConcurrentEmails == {GoodEmail}
ConcurrentPasswords == {Password(MinPasswordLength), Password(MinPasswordLength + 1)}
ConcurrentUids == {UidOf(GoodEmail)}

ConcurrentInit == InitProgram(ConcurrentSlots) /\ sink = "ok"

ConcurrentNext ==
  \E r \in ConcurrentSlots :
    \/ ReceiveRegister(r, ConcurrentEmails, {<<"A">>}, ConcurrentPasswords)
    \/ RegGetUserByEmail(r)
    \/ RegCreateUser(r)
    \/ RegGetUser(r)
    \/ RegGenerateLink(r)
    \/ ReceiveLogin(r, ConcurrentEmails, {Password(MinPasswordLength)})
    \/ LoginFetch(r)
    \/ LoginVerifyIdToken(r)
    \/ LoginGetUser(r)
    \/ ReceiveVerifyEmail(r, ConcurrentUids)
    \/ VerGetUser(r)
    \/ VerUpdateUser(r)
    \/ VerGetUserAgain(r)
    \/ CallSendEmailVerification(r, ConcurrentUids)
    \/ SevGetUser(r)
    \/ SevGenerateLink(r)

ConcurrentSpec == ConcurrentInit /\ [][ConcurrentNext]_vars

-----------------------------------------------------------------------------
(* Vocabulary of the properties *)

Done(r) == pc[r] = "done"
Called(r, call) == \E i \in DOMAIN calls[r] : calls[r][i] = call
Ran(r, op) == \E i \in DOMAIN results[r] : results[r][i].op = op
ResultOf(r, op) == results[r][CHOOSE i \in DOMAIN results[r] : results[r][i].op = op]
RegisteredBefore(r, email) == email \in ValidEmails /\ before[r][UidOf(email)].exists

\* the provider answered every call of the request from its account table,
\* and the server has its Web API key
Nominal(r) == faulted[r] = NoFault /\ env.FIREBASE_WEB_API_KEY

-----------------------------------------------------------------------------
(* C1: createUser for an email that is already registered never calls      *)
(* auth.createUser and leaves the provider's accounts as they were; it     *)
(* ends by raising an error, which is UserExists (409, answered 409 by     *)
(* POST /register) whenever the existence probe was answered.              *)
C1_ExistingEmailRejected ==
  \A r \in Reqs :
    (route[r] = "register" /\ Called(r, "auth.getUserByEmail")
       /\ RegisteredBefore(r, body[r].email))
    => /\ ~Called(r, "auth.createUser")
       /\ accounts = before[r]
       /\ Done(r) =>
            /\ ResultOf(r, "createUser").threw
            /\ faulted[r] = NoFault =>
                 /\ ResultOf(r, "createUser").error = UserExistsError(body[r].email)
                 /\ ResultOf(r, "createUser").error.statusCode = 409
                 /\ resp[r].status = 409

C1_Witness ==
  \E r \in Reqs :
    /\ Done(r) /\ route[r] = "register"
    /\ RegisteredBefore(r, body[r].email)
    /\ Ran(r, "createUser") /\ ResultOf(r, "createUser").threw
    /\ ResultOf(r, "createUser").error.cls = "UserExistsError"
    /\ resp[r].status = 409

-----------------------------------------------------------------------------
(* C2: when no account has the email and the provider accepts the          *)
(* creation, createUser returns a user record with emailVerified = false   *)
(* and POST /register answers 201 with emailVerified = false.              *)
CreatedBy(r) ==
  /\ route[r] = "register" /\ body[r].email \in ValidEmails
  /\ ~before[r][UidOf(body[r].email)].exists
  /\ accounts[UidOf(body[r].email)].exists

C2_CreatedUnverified ==
  \A r \in Reqs :
    CreatedBy(r) =>
      /\ Ran(r, "createUser")
      /\ ~ResultOf(r, "createUser").threw
      /\ ResultOf(r, "createUser").value.emailVerified = FALSE
      /\ ResultOf(r, "createUser").value.email = body[r].email
      /\ Done(r) => /\ resp[r].status = 201
                    /\ resp[r].body.success = TRUE
                    /\ resp[r].body.emailVerified = FALSE

C2_Witness ==
  \E r \in Reqs :
    /\ Done(r) /\ CreatedBy(r)
    /\ resp[r].status = 201 /\ resp[r].body.emailVerified = FALSE

-----------------------------------------------------------------------------
(* C3: a password login with the correct password for an account whose     *)
(* email is not verified ends with EmailNotVerified, answered 403.         *)
CorrectPasswordUnverified(r) ==
  /\ route[r] = "login" /\ Ran(r, "loginUser")
  /\ RegisteredBefore(r, body[r].email)
  /\ before[r][UidOf(body[r].email)].password = body[r].password
  /\ ~before[r][UidOf(body[r].email)].emailVerified

C3_UnverifiedLoginRefused ==
  \A r \in Reqs :
    (Done(r) /\ Nominal(r) /\ CorrectPasswordUnverified(r))
    => /\ ResultOf(r, "loginUser").threw
       /\ ResultOf(r, "loginUser").error.cls = "EmailNotVerifiedError"
       /\ resp[r].status = 403

-----------------------------------------------------------------------------
(* C4: a password login for an email that is not registered never succeeds *)
(* and never raises UserNotFound; whenever the provider answers the        *)
(* sign-in request it raises InvalidCredentials, answered 401 with the     *)
(* message "Invalid email or password".                                    *)
C4_UnknownEmailInvalidCredentials ==
  \A r \in Reqs :
    (Done(r) /\ route[r] = "login" /\ Ran(r, "loginUser")
       /\ ~RegisteredBefore(r, body[r].email))
    => /\ ResultOf(r, "loginUser").threw
       /\ ResultOf(r, "loginUser").error.cls # "UserNotFoundError"
       /\ resp[r].status \notin {200, 404}
       /\ Nominal(r) =>
            /\ ResultOf(r, "loginUser").error =
                 InvalidCredentialsError(<<"Invalid email or password">>)
            /\ resp[r] = Response(401, [success |-> FALSE,
                                        message |-> <<"Invalid email or password">>])

C4_Witness ==
  \E r \in Reqs :
    /\ Done(r) /\ route[r] = "login" /\ Nominal(r)
    /\ ~RegisteredBefore(r, body[r].email)
    /\ Ran(r, "loginUser") /\ ResultOf(r, "loginUser").threw
    /\ ResultOf(r, "loginUser").error.cls = "InvalidCredentialsError"
    /\ resp[r].status = 401

-----------------------------------------------------------------------------
(* C5: verifyEmailByUid is idempotent: every record it returns has         *)
(* emailVerified = true, and a call made when the account is already       *)
(* verified (a second call after a first) issues no auth.updateUser and    *)
(* changes nothing; on an existing uid it returns unless the provider      *)
(* fails.                                                                  *)
C5_VerifyIdempotent ==
  \A r \in Reqs :
    (route[r] = "verify-email" /\ body[r].uid \in AccountUids
       /\ before[r][body[r].uid].exists)
    => /\ before[r][body[r].uid].emailVerified =>
            (~Called(r, "auth.updateUser") /\ accounts = before[r])
       /\ (Done(r) /\ faulted[r] = NoFault) => ~ResultOf(r, "verifyEmailByUid").threw
       /\ (Done(r) /\ ~ResultOf(r, "verifyEmailByUid").threw) =>
            /\ ResultOf(r, "verifyEmailByUid").value.emailVerified = TRUE
            /\ ResultOf(r, "verifyEmailByUid").value.uid = body[r].uid
            /\ accounts[body[r].uid].emailVerified

\* a second call: the account was verified by an earlier update
C5_Witness ==
  \E r \in Reqs :
    /\ Done(r) /\ route[r] = "verify-email" /\ body[r].uid \in AccountUids
    /\ before[r][body[r].uid].exists /\ before[r][body[r].uid].emailVerified
    /\ updates[body[r].uid] = 1
    /\ ~ResultOf(r, "verifyEmailByUid").threw
    /\ ResultOf(r, "verifyEmailByUid").value.emailVerified = TRUE
    /\ ~Called(r, "auth.updateUser")

-----------------------------------------------------------------------------
(* C6: the userId answered by a successful POST /register names the new,   *)
(* unverified account; a POST /verify-email for it that is answered 200    *)
(* leaves the account verified; and over any number of /verify-email       *)
(* requests the provider update that takes emailVerified from false to     *)
(* true is applied exactly once per account.                               *)
C6_RegisterVerifyRoundTrip ==
  /\ \A u \in AccountUids :
       /\ updates[u] <= 1
       /\ (accounts[u].exists /\ accounts[u].emailVerified) <=> updates[u] = 1
  /\ \A r \in Reqs :
       /\ (Done(r) /\ route[r] = "register" /\ resp[r].status = 201) =>
            /\ resp[r].body.userId \in AccountUids
            /\ accounts[resp[r].body.userId].exists
            /\ accounts[resp[r].body.userId].email = body[r].email
            /\ ~accounts[resp[r].body.userId].emailVerified
       /\ (Done(r) /\ route[r] = "verify-email" /\ resp[r].status = 200) =>
            /\ accounts[body[r].uid].emailVerified
            /\ resp[r].body.emailVerified = TRUE
            /\ Called(r, "auth.updateUser") <=> ~before[r][body[r].uid].emailVerified

\* a later /verify-email for an account made by /register and verified since
C6_Witness ==
  \E r \in Reqs :
    /\ Done(r) /\ route[r] = "verify-email" /\ resp[r].status = 200
    /\ body[r].uid = UidOf(GoodEmail)
    /\ before[r][body[r].uid].emailVerified
    /\ updates[body[r].uid] = 1

-----------------------------------------------------------------------------
(* C7: no emitted log record contains a raw password, whether as a context *)
(* key, inside a logged value or inside the logged request.                *)
HoldsRawPassword(object) ==
  "password" \in DOMAIN object /\ object.password \in RawPasswords

ContainsRawPassword(data) ==
  \/ HoldsRawPassword(data)
  \/ /\ "value" \in DOMAIN data
     /\ \/ data.value.t = "object" /\ HoldsRawPassword(data.value.v)
        \/ data.value.t = "string" /\ data.value.v \in RawPasswords
  \/ "request" \in DOMAIN data /\ HoldsRawPassword(data.request.body)

C7_NoRawPasswordLogged ==
  \A r \in Reqs : \A i \in DOMAIN log[r] : ~ContainsRawPassword(log[r][i].data)

-----------------------------------------------------------------------------
(* C8: the status of a taxonomy error is fixed by its kind (UserExists     *)
(* 409, InvalidCredentials 401, EmailNotVerified 403, UserNotFound 404,    *)
(* InvalidToken 400), and a handler that answers for a taxonomy error      *)
(* raised by the adapter answers with that error's status.                 *)
KindStatus(cls) ==
  CASE cls = "UserExistsError" -> 409
    [] cls = "InvalidCredentialsError" -> 401
    [] cls = "EmailNotVerifiedError" -> 403
    [] cls = "UserNotFoundError" -> 404
    [] cls = "InvalidTokenError" -> 400

\* the operations whose errors the handlers answer for (register goes on
\* when sendEmailVerification throws)
AnsweredOps == {"createUser", "verifyEmailByUid", "loginUser"}

C8_StatusByKind ==
  \A r \in Reqs : \A i \in DOMAIN results[r] :
    (results[r][i].threw /\ InstanceOf(results[r][i].error, "FirebaseError"))
    => /\ results[r][i].error.cls # "FirebaseError" =>
            results[r][i].error.statusCode = KindStatus(results[r][i].error.cls)
       /\ (Done(r) /\ results[r][i].op \in AnsweredOps) =>
            resp[r].status = results[r][i].error.statusCode

C8_Witness ==
  \E r \in Reqs :
    /\ Done(r) /\ route[r] = "verify-email" /\ Ran(r, "verifyEmailByUid")
    /\ ResultOf(r, "verifyEmailByUid").threw
    /\ ResultOf(r, "verifyEmailByUid").error.cls = "UserNotFoundError"
    /\ resp[r].status = 404

-----------------------------------------------------------------------------
(* C9: when the provider answers a call with an error code the adapter has *)
(* no mapping for, the operation raises ProviderFailure with status 500    *)
(* and the provider's code in its code field.                              *)
C9_UnknownCodeIsProviderFailure ==
  \A r \in Reqs :
    (Done(r) /\ faulted[r] \notin {NoFault, Transport})
    => LET last == results[r][Len(results[r])]
       IN /\ last.threw
          /\ last.error.cls = "FirebaseError"
          /\ last.error.statusCode = 500
          /\ last.error.code = faulted[r]

-----------------------------------------------------------------------------
(* C10: every error that leaves createUser, sendEmailVerification,         *)
(* verifyEmailByUid or loginUser is a FirebaseError or one of its          *)
(* subclasses.                                                             *)
C10_OnlyTaxonomyErrorsEscape ==
  \A r \in Reqs : \A i \in DOMAIN results[r] :
    results[r][i].threw => InstanceOf(results[r][i].error, "FirebaseError")

-----------------------------------------------------------------------------
(* C11: a loginUser that returns has had the sign-in token verified by     *)
(* auth.verifyIdToken and has then fetched the user by auth.getUser, in    *)
(* that order; the record it returns is the provider's record of the uid   *)
(* the token names; and when the verification or the fetch fails,          *)
(* loginUser throws and POST /login answers without a token.               *)
PositionOf(r, call) == CHOOSE i \in DOMAIN calls[r] : calls[r][i] = call

VerifyOrFetchFailed(r) ==
  /\ Called(r, "auth.verifyIdToken")
  /\ faulted[r] \in {"auth/argument-error", SdkFault.code}

C11_TokenVerifiedBeforeTrusted ==
  \A r \in Reqs :
    (Done(r) /\ route[r] = "login" /\ Ran(r, "loginUser"))
    => /\ ~ResultOf(r, "loginUser").threw =>
            /\ Called(r, "auth.verifyIdToken") /\ Called(r, "auth.getUser")
            /\ PositionOf(r, "fetch signInWithPassword") < PositionOf(r, "auth.verifyIdToken")
            /\ PositionOf(r, "auth.verifyIdToken") < PositionOf(r, "auth.getUser")
            /\ ResultOf(r, "loginUser").value.user =
                 UserRecord(SdkUser(ResultOf(r, "loginUser").value.idToken[2]))
            /\ faulted[r] = NoFault
       /\ VerifyOrFetchFailed(r) =>
            /\ ResultOf(r, "loginUser").threw
            /\ resp[r].status # 200
            /\ "token" \notin DOMAIN resp[r].body

C11_Witness ==
  \E r \in Reqs :
    /\ Done(r) /\ route[r] = "login" /\ Ran(r, "loginUser")
    /\ ~ResultOf(r, "loginUser").threw
    /\ Called(r, "auth.verifyIdToken")
    /\ resp[r].status = 200
    /\ resp[r].body.token = IdToken(resp[r].body.userId)

-----------------------------------------------------------------------------
(* C12: no HTTP response carries the provider's own error text or error    *)
(* code as its message.                                                    *)
ProviderTexts ==
  { <<"An internal error has occurred">>,
    <<"There is no user record for this identifier">>,
    <<"The email address is already in use">>,
    <<"Decoding Firebase ID token failed">>,
    <<"TOO_MANY_ATTEMPTS_TRY_LATER">>, <<"UNAVAILABLE">>,
    <<"EMAIL_NOT_FOUND">>, <<"INVALID_PASSWORD">>, <<"fetch", " failed">> }

\* the message fields of a response body
ResponseMessages(response) ==
  IF response.status = 0 THEN {}
  ELSE (IF "message" \in DOMAIN response.body THEN {response.body.message} ELSE {})
       \cup (IF "error" \in DOMAIN response.body THEN {response.body.error.message} ELSE {})

C12_NoProviderTextInResponse ==
  \A r \in Reqs : ResponseMessages(resp[r]) \cap ProviderTexts = {}

-----------------------------------------------------------------------------
(* C13: every record the program emits under an event name that ends in    *)
(* _failure or _error has level warn or error.  The records of a direct    *)
(* call of a wrapper that takes the event name from its caller             *)
(* (logAuthEvent, logSecurityEvent, logApplicationEvent, logBusinessEvent) *)
(* are the caller's; the program's own calls of them are covered.          *)
EndsWith(text, suffix) ==
  /\ Len(text) >= Len(suffix)
  /\ SubSeq(text, Len(text) - Len(suffix) + 1, Len(text)) = suffix

FailureEvent(event) == EndsWith(event, "_failure") \/ EndsWith(event, "_error")

CallerNamed == {"logAuthEvent", "logSecurityEvent", "logApplicationEvent", "logBusinessEvent"}

DirectCallOf(r, wrappers) == route[r] = "logger" /\ body[r].wrapper \in wrappers

C13_FailureEventsAtWarnOrError ==
  \A r \in Reqs : \A i \in DOMAIN log[r] :
    (FailureEvent(log[r][i].data.event) /\ ~DirectCallOf(r, CallerNamed))
    => log[r][i].level \in {"warn", "error"}

\* a login refused for a wrong password has logged login_failure at warn
C13_Witness ==
  \E r \in Reqs :
    /\ Done(r) /\ route[r] = "login" /\ resp[r].status = 401
    /\ \E i \in DOMAIN log[r] :
         log[r][i].data.event = "login_failure" /\ log[r][i].level = "warn"

-----------------------------------------------------------------------------
(* C14: a log sink that throws interrupts nothing: no wrapper call and no  *)
(* handler ends by the sink's exception.                                   *)
C14_LoggingNeverInterrupts ==
  \A r \in Reqs : \A i \in DOMAIN results[r] :
    ~(results[r][i].threw /\ results[r][i].error = SinkError)

-----------------------------------------------------------------------------
(* C15: the level of a record of a convenience wrapper is fixed by its     *)
(* event (the table below), whoever emits it; a direct call of a           *)
(* pass-through function (logAuthEvent, logSecurityEvent,                  *)
(* logApplicationEvent) emits at the level its caller supplied.            *)
PolicyLevel(event) ==
  CASE event \in {"registration_attempt", "registration_success", "login_success",
                  "database_connection_connected", "database_connection_disconnected",
                  "system_startup", "system_config_change", "system_health_check"} -> "info"
    [] event \in {"login_failure", "permission_denied", "failed_auth_attempt",
                  "slow_query", "system_shutdown"} -> "warn"
    [] event \in {"registration_failure", "database_error", "api_error",
                  "database_connection_error"} -> "error"
    [] OTHER -> "any"

PassThrough == {"logAuthEvent", "logSecurityEvent", "logApplicationEvent"}

C15_LevelFixedByEvent ==
  \A r \in Reqs : \A i \in DOMAIN log[r] :
    /\ PolicyLevel(log[r][i].data.event) # "any" =>
         log[r][i].level = PolicyLevel(log[r][i].data.event)
    /\ DirectCallOf(r, PassThrough) => log[r][i].level = body[r].level

C15_Witness ==
  \E r \in Reqs :
    /\ Done(r) /\ DirectCallOf(r, {"logSystemEvent"}) /\ body[r].event = "shutdown"
    /\ Len(log[r]) = 1
    /\ log[r][1].data.event = "system_shutdown" /\ log[r][1].level = "warn"

-----------------------------------------------------------------------------
(* C16: every error response (status 400 or above) has a JSON body with    *)
(* top-level success = false and a top-level message field, and carries a  *)
(* stack only when NODE_ENV is not production.                             *)
HasStack(json) ==
  \/ "stack" \in DOMAIN json
  \/ "error" \in DOMAIN json /\ "stack" \in DOMAIN json.error

C16_ErrorBodyShape ==
  \A r \in Reqs :
    resp[r].status >= 400
    => /\ "success" \in DOMAIN resp[r].body /\ resp[r].body.success = FALSE
       /\ "message" \in DOMAIN resp[r].body
       /\ HasStack(resp[r].body) => env.NODE_ENV # "production"

-----------------------------------------------------------------------------
(* C17: a request that ends with an error that is not of the taxonomy is   *)
(* logged at error level and answered 500, in production with the message *)
(* "Internal Server Error" and without a stack, whatever fields the error  *)
(* carries.                                                                *)
LastResult(r) == results[r][Len(results[r])]

\* the request ended with an error outside the taxonomy
Unclassified(r) ==
  /\ Done(r) /\ route[r] \in {"register", "login", "verify-email", "express.json"}
  /\ results[r] # <<>>
  /\ LastResult(r).threw
  /\ ~InstanceOf(LastResult(r).error, "FirebaseError")

LoggedAtError(r) ==
  \E i \in DOMAIN log[r] : log[r][i].level = "error" /\ log[r][i].data.event = "request_error"

GenericInProduction(r) ==
  env.NODE_ENV = "production" =>
    /\ resp[r].body.error.message = <<"Internal Server Error">>
    /\ ~HasStack(resp[r].body)

C17_UnclassifiedIs500 ==
  \A r \in Reqs :
    Unclassified(r) => /\ LoggedAtError(r)
                       /\ resp[r].status = 500
                       /\ GenericInProduction(r)

(* C17 as amended: such a request is logged at error level and answered    *)
(* with the status the error carries in statusCode (or status), 500 when   *)
(* it carries none; in production the message is "Internal Server Error"   *)
(* and there is no stack, outside production the error's own message and   *)
(* stack are sent.                                                         *)
C17_UnclassifiedAnswer ==
  \A r \in Reqs :
    Unclassified(r)
    => LET err == LastResult(r).error
       IN /\ LoggedAtError(r)
          /\ resp[r].status = IF "statusCode" \in DOMAIN err THEN err.statusCode
                               ELSE IF "status" \in DOMAIN err THEN err.status
                               ELSE 500
          /\ resp[r].body.success = FALSE
          /\ GenericInProduction(r)
          /\ env.NODE_ENV # "production" =>
               /\ resp[r].body.error.message = err.message
               /\ resp[r].body.error.stack = err.stack

\* a refused body in production: answered with the error's 400 and the
\* generic message
C17_Witness ==
  \E r \in Reqs :
    /\ Unclassified(r) /\ route[r] = "express.json"
    /\ env.NODE_ENV = "production"
    /\ resp[r].status = 400
    /\ resp[r].body.error.message = <<"Internal Server Error">>

-----------------------------------------------------------------------------
(* C18: sendEmailVerification(uid), when the provider answers its calls,   *)
(* ends in exactly one of: UserNotFound (404) for an unknown uid;          *)
(* FirebaseError with status 400 for an account without an email address;  *)
(* the returned sentinel "Email is already verified" for a verified        *)
(* account; the returned link otherwise.  A link is requested from the     *)
(* provider in the last case only, and the accounts are left as they were. *)
SentTo(r) == before[r][body[r].uid]

C18_SendEmailVerificationOutcomes ==
  \A r \in Reqs :
    route[r] = "sendEmailVerification"
    => LET uid == body[r].uid
           known == uid \in AccountUids /\ before[r][uid].exists
           sendable == known /\ SentTo(r).email # <<>> /\ ~SentTo(r).emailVerified
       IN /\ accounts = before[r]
          /\ Called(r, "auth.generateEmailVerificationLink") => sendable
          /\ (Done(r) /\ faulted[r] = NoFault) =>
               LET result == ResultOf(r, "sendEmailVerification")
               IN IF ~known
                    THEN result.threw /\ result.error = UserNotFoundError(uid)
                         /\ result.error.statusCode = 404
                  ELSE IF SentTo(r).email = <<>>
                    THEN result.threw /\ result.error.cls = "FirebaseError"
                         /\ result.error.statusCode = 400
                  ELSE IF SentTo(r).emailVerified
                    THEN ~result.threw /\ result.value = <<"Email is already verified">>
                  ELSE ~result.threw /\ result.value = <<"https://link/", SentTo(r).email>>
                       /\ Called(r, "auth.generateEmailVerificationLink")

\* the sentinel: a call for an account made by /register and verified since
C18_Witness ==
  \E r \in Reqs :
    /\ Done(r) /\ route[r] = "sendEmailVerification"
    /\ body[r].uid = UidOf(GoodEmail)
    /\ SentTo(r).exists /\ SentTo(r).emailVerified
    /\ ~ResultOf(r, "sendEmailVerification").threw
    /\ ResultOf(r, "sendEmailVerification").value = <<"Email is already verified">>
    /\ ~Called(r, "auth.generateEmailVerificationLink")

-----------------------------------------------------------------------------
(* C19: a POST /register with email and fullName present, a well-formed    *)
(* email and a password of fewer than 6 characters is answered 400 with    *)
(* the message that states the minimum length of 6, and creates nothing.   *)
ShortPasswordRegistration(r) ==
  /\ Done(r) /\ route[r] = "register"
  /\ body[r].email \in ValidEmails /\ body[r].fullName # Absent
  /\ Len(body[r].password) < 6

RejectedForLength(r) ==
  /\ resp[r] = Response(400, [success |-> FALSE,
                              message |-> <<"Password must be at least 6 characters long">>])
  /\ calls[r] = <<>>
  /\ accounts = before[r]

C19_ShortPasswordRejected ==
  \A r \in Reqs : ShortPasswordRegistration(r) => RejectedForLength(r)

(* C19 as amended: the same for a password that is not empty and has fewer *)
(* than 6 characters; an empty password is answered 400 as a missing       *)
(* field, and creates nothing either.                                      *)
C19_NonEmptyShortPasswordRejected ==
  \A r \in Reqs :
    ShortPasswordRegistration(r)
    => IF body[r].password # <<>>
         THEN RejectedForLength(r)
         ELSE /\ resp[r] = Response(400, [success |-> FALSE,
                    message |-> <<"Email, fullName, and password are required">>])
              /\ calls[r] = <<>>
              /\ accounts = before[r]

C19_Witness ==
  \E r \in Reqs :
    /\ ShortPasswordRegistration(r)
    /\ Len(body[r].password) = 5
    /\ resp[r].status = 400
    /\ resp[r].body.message = <<"Password must be at least 6 characters long">>

-----------------------------------------------------------------------------
(* C20: a POST /login with the email of an existing verified account and a *)
(* wrong password never answers 200 and never returns a token; whenever    *)
(* the provider answers the sign-in request it is answered 401 with the    *)
(* body exactly {success: false, message: "Invalid email or password"}.    *)
WrongPasswordVerified(r) ==
  /\ Done(r) /\ route[r] = "login" /\ Ran(r, "loginUser")
  /\ RegisteredBefore(r, body[r].email)
  /\ before[r][UidOf(body[r].email)].emailVerified
  /\ before[r][UidOf(body[r].email)].password # body[r].password

C20_WrongPasswordIs401 ==
  \A r \in Reqs :
    WrongPasswordVerified(r)
    => /\ ResultOf(r, "loginUser").threw
       /\ resp[r].status # 200
       /\ "token" \notin DOMAIN resp[r].body
       /\ Nominal(r) =>
            resp[r] = Response(401, [success |-> FALSE,
                                     message |-> <<"Invalid email or password">>])

C20_Witness ==
  \E r \in Reqs :
    /\ WrongPasswordVerified(r) /\ Nominal(r)
    /\ resp[r].status = 401
    /\ DOMAIN resp[r].body = {"success", "message"}

-----------------------------------------------------------------------------
(* C21: a POST /verify-email whose uid names no account at the provider    *)
(* issues no provider write and changes no account; when the provider      *)
(* answers the lookup, the response is 404 with the body                   *)
(* {success: false, message: "User not found: <uid>"}.                     *)
UnknownUidVerification(r) ==
  /\ route[r] = "verify-email" /\ body[r].uid # ""
  /\ body[r].uid \in AccountUids => ~before[r][body[r].uid].exists

C21_UnknownUidIs404 ==
  \A r \in Reqs :
    UnknownUidVerification(r)
    => /\ ~Called(r, "auth.updateUser")
       /\ accounts = before[r]
       /\ (Done(r) /\ faulted[r] = NoFault) =>
            /\ resp[r] = Response(404, [success |-> FALSE,
                                        message |-> <<"User not found: ", body[r].uid>>])
            /\ calls[r] = <<"auth.getUser">>

C21_Witness ==
  \E r \in Reqs :
    /\ Done(r) /\ UnknownUidVerification(r) /\ faulted[r] = NoFault
    /\ body[r].uid = "nonexistent"
    /\ resp[r].status = 404
    /\ InstanceOf(ResultOf(r, "verifyEmailByUid").error, "UserNotFoundError")

-----------------------------------------------------------------------------
(* C22: every adapter operation that has returned a result or raised an    *)
(* error has emitted at least one log record of its own by then.           *)
EmittedBy(r, op) == \E j \in DOMAIN emitter[r] : emitter[r][j] = op

C22_EveryPathLogs ==
  \A r \in Reqs :
    \A i \in DOMAIN results[r] :
      results[r][i].op \in AdapterOps => EmittedBy(r, results[r][i].op)

-----------------------------------------------------------------------------
(* C23: when the sign-in request of a password login fails in transport,   *)
(* loginUser raises the network variant of ProviderFailure (status 500,    *)
(* message "Network error during login"), logs it at error level, and      *)
(* POST /login answers 500.                                                *)
TransportFailedLogin(r) ==
  Done(r) /\ route[r] = "login" /\ faulted[r] = Transport

C23_NetworkVariant ==
  \A r \in Reqs :
    TransportFailedLogin(r)
    => /\ ResultOf(r, "loginUser").threw
       /\ ResultOf(r, "loginUser").error
            = FirebaseError(<<"Network error during login">>, 500, Undefined)
       /\ \E j \in DOMAIN log[r] :
            /\ emitter[r][j] = "loginUser"
            /\ log[r][j].level = "error"
            /\ log[r][j].data.event = "login_network_error"
       /\ resp[r].status = 500

-----------------------------------------------------------------------------
(* C24: of the POST /register requests in flight for one email, at most    *)
(* one is answered 201 and the account is the one that request asked for;  *)
(* when two of them arrived before the account existed and the provider    *)
(* answered all their calls, one is answered 201 and the other 409         *)
(* UserExists, also when both passed the existence probe.                  *)
RegistrationFor(r, email) == route[r] = "register" /\ body[r].email = email

RacingRegistrations(r1, r2, email) ==
  /\ r1 # r2
  /\ RegistrationFor(r1, email) /\ RegistrationFor(r2, email)
  /\ ~RegisteredBefore(r1, email) /\ ~RegisteredBefore(r2, email)
  /\ Done(r1) /\ Done(r2)
  /\ faulted[r1] = NoFault /\ faulted[r2] = NoFault

C24_OneRegistrationWins ==
  \A r1, r2 \in ConcurrentSlots : \A email \in ValidEmails :
    /\ (r1 # r2 /\ RegistrationFor(r1, email) /\ RegistrationFor(r2, email))
         => ~(resp[r1].status = 201 /\ resp[r2].status = 201)
    /\ (RegistrationFor(r1, email) /\ resp[r1].status = 201 /\ ~RegisteredBefore(r1, email))
         => /\ accounts[UidOf(email)].exists
            /\ accounts[UidOf(email)].password = body[r1].password
    /\ RacingRegistrations(r1, r2, email)
         => \/ /\ resp[r1].status = 201
               /\ resp[r2] = Response(409, [success |-> FALSE,
                                            message |-> UserExistsError(email).message])
            \/ /\ resp[r2].status = 201
               /\ resp[r1] = Response(409, [success |-> FALSE,
                                            message |-> UserExistsError(email).message])

\* both requests passed the probe and asked the provider to create the account
C24_Witness ==
  \E r1, r2 \in ConcurrentSlots :
    /\ RacingRegistrations(r1, r2, GoodEmail)
    /\ Called(r1, "auth.createUser") /\ Called(r2, "auth.createUser")
    /\ body[r1].password # body[r2].password
    /\ resp[r1].status = 201 /\ resp[r2].status = 409

-----------------------------------------------------------------------------
(* C25: of two POST /verify-email requests in flight for the same          *)
(* existing, unverified uid, at most one issues auth.updateUser; when the  *)
(* provider answers all their calls both are answered 200 with             *)
(* emailVerified = true and the account ends verified.                     *)
RacingVerifications(r1, r2, uid) ==
  /\ r1 # r2
  /\ route[r1] = "verify-email" /\ route[r2] = "verify-email"
  /\ body[r1].uid = uid /\ body[r2].uid = uid
  /\ before[r1][uid].exists /\ ~before[r1][uid].emailVerified
  /\ before[r2][uid].exists /\ ~before[r2][uid].emailVerified

C25_OneVerificationWrites ==
  \A r1, r2 \in ConcurrentSlots : \A uid \in AccountUids :
    RacingVerifications(r1, r2, uid)
    => /\ ~(Called(r1, "auth.updateUser") /\ Called(r2, "auth.updateUser"))
       /\ (Done(r1) /\ Done(r2) /\ faulted[r1] = NoFault /\ faulted[r2] = NoFault)
            => /\ resp[r1].status = 200 /\ resp[r1].body.emailVerified = TRUE
               /\ resp[r2].status = 200 /\ resp[r2].body.emailVerified = TRUE
               /\ accounts[uid].emailVerified

-----------------------------------------------------------------------------
(* C26: a POST /register, /login or /verify-email request with a missing   *)
(* field, a malformed email or (for /register) a password shorter than 6   *)
(* is answered 400 at once, issues no provider call, runs no adapter       *)
(* operation and leaves the provider's accounts as they were.              *)
InvalidInput(r) ==
  \/ /\ route[r] = "register"
     /\ \/ body[r].email \notin ValidEmails
        \/ body[r].fullName = Absent
        \/ Len(body[r].password) < 6
  \/ /\ route[r] = "login"
     /\ body[r].email \notin ValidEmails \/ body[r].password = Absent
  \/ /\ route[r] = "verify-email"
     /\ body[r].uid = ""

C26_RejectedWithoutProviderCall ==
  \A r \in Reqs :
    InvalidInput(r)
    => /\ Done(r)
       /\ resp[r].status = 400
       /\ calls[r] = <<>>
       /\ results[r] = <<>>
       /\ accounts = before[r]

\* rejections of each kind have happened with accounts at the provider
C26_Witness ==
  \E r \in Reqs :
    /\ Done(r) /\ InvalidInput(r)
    /\ route[r] = "register" /\ body[r].email = NoDotEmail
    /\ body[r].fullName # Absent /\ body[r].password # Absent
    /\ resp[r].status = 400
    /\ \E u \in AccountUids \ {PhoneUid} : accounts[u].exists

-----------------------------------------------------------------------------
(* C27: once createUser has returned for a POST /register, the request is  *)
(* answered 201 with the uid of the new account, and the account stays,    *)
(* whether sendEmailVerification returns a link, returns the sentinel      *)
(* "Email is already verified", or raises an error.                        *)
CreatedAccount(r) ==
  /\ route[r] = "register" /\ Ran(r, "createUser")
  /\ ~ResultOf(r, "createUser").threw

C27_RegistrationSurvivesVerification ==
  \A r \in ConcurrentSlots :
    CreatedAccount(r)
    => /\ accounts[ResultOf(r, "createUser").value.uid].exists
       /\ Done(r) =>
            /\ Ran(r, "sendEmailVerification")
            /\ resp[r].status = 201
            /\ resp[r].body.success = TRUE
            /\ resp[r].body.userId = ResultOf(r, "createUser").value.uid

\* sendEmailVerification raised an error, and the request was answered
C27_Witness ==
  \E r \in ConcurrentSlots :
    /\ Done(r) /\ CreatedAccount(r)
    /\ ResultOf(r, "sendEmailVerification").threw
    /\ resp[r].status = 201

-----------------------------------------------------------------------------
(* C28: the record a logger wrapper emits carries the wrapper's category   *)
(* as `type` and the wrapper's event name as `event`, whatever keys the    *)
(* caller's context holds.                                                 *)
WrapperCategory(wrapper) ==
  CASE wrapper \in {"logAuthEvent", "logRegistration", "logLoginAttempt",
                    "logPermissionDenied"} -> "auth"
    [] wrapper \in {"logSecurityEvent", "logFailedAuthAttempt"} -> "security"
    [] wrapper \in {"logValidationError", "logSchemaError"} -> "validation"
    [] wrapper \in {"logApiCall", "logApiError"} -> "api"
    [] wrapper \in {"logBusinessEvent", "logBusinessError"} -> "business"
    [] wrapper \in {"logApplicationEvent", "logSystemEvent"} -> "application"
    [] wrapper \in {"logDatabaseError", "logDatabaseConnection", "logSlowQuery"} -> "database"
    [] wrapper \in {"logPerformance", "logTimeout"} -> "performance"

\* the event name of a call, from the wrapper and its arguments
WrapperEvent(call) ==
  CASE call.wrapper \in {"logAuthEvent", "logSecurityEvent", "logApplicationEvent",
                         "logBusinessEvent"} -> call.event
    [] call.wrapper = "logRegistration" -> "registration_" \o call.event
    [] call.wrapper = "logLoginAttempt" ->
         IF call.success THEN "login_success" ELSE "login_failure"
    [] call.wrapper = "logPermissionDenied" -> "permission_denied"
    [] call.wrapper = "logFailedAuthAttempt" -> "failed_auth_attempt"
    [] call.wrapper = "logValidationError" -> "validation_error"
    [] call.wrapper = "logSchemaError" -> "schema_error"
    [] call.wrapper = "logApiCall" -> "api_call"
    [] call.wrapper = "logApiError" -> "api_error"
    [] call.wrapper = "logBusinessError" -> call.event \o "_error"
    [] call.wrapper = "logSystemEvent" -> "system_" \o call.event
    [] call.wrapper = "logDatabaseError" -> "database_error"
    [] call.wrapper = "logDatabaseConnection" -> "database_connection_" \o call.event
    [] call.wrapper = "logSlowQuery" -> "slow_query"
    [] call.wrapper = "logPerformance" -> "performance_metric"
    [] call.wrapper = "logTimeout" -> "operation_timeout"

C28_EnvelopeNotOverridable ==
  \A r \in Reqs :
    (Done(r) /\ route[r] = "logger")
    => \A i \in DOMAIN log[r] :
         /\ log[r][i].data.type = WrapperCategory(body[r].wrapper)
         /\ log[r][i].data.event = WrapperEvent(body[r])

-----------------------------------------------------------------------------
(* C29: a POST /login that is answered 200 has emitted exactly one         *)
(* `login_success` record and no `login_failure` record; a request that    *)
(* has emitted a `login_failure` record is not answered 200.               *)
RecordsOf(r, event) == {i \in DOMAIN log[r] : log[r][i].data.event = event}

C29_OneSuccessRecord ==
  \A r \in Reqs :
    (Done(r) /\ route[r] = "login")
    => /\ resp[r].status = 200 =>
            /\ Cardinality(RecordsOf(r, "login_success")) = 1
            /\ RecordsOf(r, "login_failure") = {}
       /\ RecordsOf(r, "login_failure") # {} => resp[r].status # 200

-----------------------------------------------------------------------------
(* C30: no step of any /register, /login or /verify-email request or       *)
(* sendEmailVerification call, in any interleaving, takes an account's     *)
(* emailVerified from true back to false, or removes a verified account.   *)
Verified(table, uid) == table[uid].exists /\ table[uid].emailVerified

C30_VerifiedStaysVerified ==
  [][\A uid \in AccountUids : Verified(accounts, uid) => Verified(accounts', uid)]_vars

\* a registration for the account's email and a verification or
\* sendEmailVerification call for its uid, both arrived after the account
\* was verified, have finished
C30_Witness ==
  \E uid \in AccountUids :
    /\ Verified(accounts, uid)
    /\ \E r1, r2 \in ConcurrentSlots :
         /\ r1 # r2 /\ Done(r1) /\ Done(r2)
         /\ Verified(before[r1], uid) /\ Verified(before[r2], uid)
         /\ route[r1] = "register" /\ UidOf(body[r1].email) = uid
         /\ Called(r1, "auth.getUserByEmail")
         /\ route[r2] \in {"verify-email", "sendEmailVerification"} /\ body[r2].uid = uid

====
